---- MODULE Spec2Model ----
(***************************************************************************)
(* Light-wallet server: the multi-threaded blockchain scanner              *)
(* (scanner.cpp), the in-memory account state (account.cpp), the packed    *)
(* data model (db/data.h), the storage update protocol and the REST        *)
(* readers (rest_server.cpp).                                              *)
(*                                                                         *)
(* Heights h = 0, 1, 2, ... ; a table of block hashes is a sequence whose  *)
(* entry h + 1 is the hash of the block at height h.                       *)
(***************************************************************************)
EXTENDS Integers, Sequences, FiniteSets, TLC

(***************************************************************************)
(* Bounds of the model.                                                    *)
(***************************************************************************)
\* highest height the peer's chain may reach
MaxHeight == 5
\* most blocks the peer ships in one get_blocks_fast response
PeerMaxBlocks == 2

\* the registered accounts (db::account_id)
Accounts == {1, 2}
\* scan worker slots (scan-threads is 1 or 2)
Workers == {1, 2}
\* height of the peer's tip when the server starts
InitTip == MaxHeight - 1
\* height from which a reorganization replaces the peer's blocks
ForkPoint == MaxHeight - 1

Max(a, b) == IF a < b THEN b ELSE a
Min(a, b) == IF a < b THEN a ELSE b

(***************************************************************************)
(* db/data.h: extra flags and the packed extra_and_length byte.            *)
(***************************************************************************)
kNone == 0
kCoinbase == 1
kRingct == 2
kCoinbaseAndRingct == 3

\* bitwise or of two values of db::extra (two bits)
ExtraOr(a, b) ==
    Max(a % 2, b % 2) + 2 * Max((a \div 2) % 2, (b \div 2) % 2)

\* pack(val, length): (uint8(val) & 0x7) | (length << 3), narrowed to uint8
pack(val, length) == ((val % 8) + (length * 8)) % 256

\* unpack(val): {extra(val & 0x7), val >> 3}
unpack(val) == <<val % 8, val \div 8>>

(***************************************************************************)
(* The peer's chain.  A block hash is 2 * height + fork, fork 1 being the  *)
(* blocks of the reorganized branch.  What a block holds is fixed by its   *)
(* hash.                                                                   *)
(***************************************************************************)
Hash(h, f) == 2 * h + f
HeightOf(hash) == hash \div 2
ForkOf(hash) == hash % 2

\* the fork of the parent of block (h, f)
ParentFork(h, f) == IF f = 1 /\ h > ForkPoint THEN 1 ELSE 0

\* global output ids assigned by the peer; ids are per-amount indices, so
\* they do not grow with the height (the block at InitTip holds low ids)
OutIdBase(h) == IF h = InitTip THEN 4 ELSE 10 * h
MinerOutId(h, f) == OutIdBase(h) + 1 + 2 * f
TxOutId(h, f) == OutIdBase(h) + 2 + 2 * f

\* the accounts whose keys match the outputs
MinerOwner(h, f) == 1 + ((h + f) % 2)
TxOwner(h, f) == 1 + ((h + f + 1) % 2)

\* ascending sequence of the elements of a finite set of integers
RECURSIVE SortedSeq(_)
SortedSeq(S) ==
    IF S = {} THEN <<>>
    ELSE LET m == CHOOSE x \in S : \A y \in S : x <= y
         IN  <<m>> \o SortedSeq(S \ {m})

\* ring members as offsets: each entry is the difference to its predecessor
Offsets(ids) ==
    [i \in 1..Len(ids) |-> IF i = 1 THEN ids[1] ELSE ids[i] - ids[i - 1]]

\* the ring of the transaction of block (h, f): the miner output of the
\* parent block, the miner output of the same block and one foreign output
RingIds(h, f) ==
    SortedSeq({0, MinerOutId(h, f)}
              \cup (IF h > 1 THEN {MinerOutId(h - 1, ParentFork(h, f))} ELSE {}))

\* the coinbase transaction: no ring input, one clear-amount output
MinerTx(h, f) ==
    [ version |-> 2, has_pub_key |-> TRUE, derives |-> TRUE,
      hash |-> 100 + Hash(h, f), pid_len |-> 0, vin |-> <<>>,
      vout |-> << [owner |-> MinerOwner(h, f), amount |-> 5, decodes |-> TRUE] >> ]

\* the one other transaction of the block: one ring input, one ringct output
UserTx(h, f) ==
    [ version |-> 2, has_pub_key |-> TRUE, derives |-> TRUE,
      hash |-> 200 + Hash(h, f), pid_len |-> 8,
      vin |-> << [k_image |-> 300 + Hash(h, f), key_offsets |-> Offsets(RingIds(h, f))] >>,
      vout |-> << [owner |-> TxOwner(h, f), amount |-> 0, decodes |-> TRUE] >> ]

\* one entry of a get_blocks_fast response: block, its transactions and
\* output_indices[b] (entry 1 for the miner transaction)
BlockOf(hash) ==
    LET h == HeightOf(hash)
        f == ForkOf(hash)
    IN  [ hash |-> hash,
          miner_tx |-> MinerTx(h, f),
          tx_hashes |-> << UserTx(h, f).hash >>,
          transactions |-> << UserTx(h, f) >>,
          indices |-> << <<MinerOutId(h, f)>>, <<TxOutId(h, f)>> >> ]

(***************************************************************************)
(* account.cpp: the in-memory scan state of one user.                      *)
(* [id, height, received_, outputs_, spends_]                              *)
(***************************************************************************)
\* std::lower_bound over received_: bisection, whatever the order of s
RECURSIVE lower_bound_(_, _, _, _)
lower_bound_(s, first, len, v) ==
    IF len = 0 THEN first
    ELSE LET half == len \div 2
             mid == first + half
         IN  IF s[mid] < v
             THEN lower_bound_(s, mid + 1, len - half - 1, v)
             ELSE lower_bound_(s, first, half, v)

lower_bound(s, v) == lower_bound_(s, 1, Len(s), v)

\* a binary_search that takes any position lower_bound finds for a match
binary_search_without_compare(s, v) == lower_bound(s, v) <= Len(s)

\* std::binary_search: lower_bound, then the element found is not greater
binary_search(s, v) ==
    LET i == lower_bound(s, v)
    IN  i <= Len(s) /\ ~(v < s[i])

InsertAt(s, i, v) == SubSeq(s, 1, i - 1) \o <<v>> \o SubSeq(s, i, Len(s))

\* account::account(db::account const&, std::vector<output_id> received_):
\* the sort in the constructor body acts on the moved-from parameter, the
\* member keeps the order it was given
account(id, scan_height, receives) ==
    [ id |-> id, height |-> scan_height, received_ |-> receives,
      outputs_ |-> <<>>, spends_ |-> <<>> ]

\* account::add_out
add_out(u, out) ==
    [u EXCEPT !.outputs_ = Append(@, out),
              !.received_ = InsertAt(@, lower_bound(@, out.id), out.id)]

\* the loop of account::check_spends from ring member i on, id being the sum
\* of the offsets before it
RECURSIVE check_spends_(_, _, _, _, _, _)
check_spends_(u, image, new_spends, mixin, i, id) ==
    IF i > Len(new_spends) THEN u
    ELSE LET next == id + new_spends[i]
             v == IF binary_search(u.received_, next)
                  THEN [u EXCEPT !.spends_ =
                           Append(@, [id |-> next, image |-> image, mixin_count |-> mixin])]
                  ELSE u
         IN  check_spends_(v, image, new_spends, mixin, i + 1, next)

\* account::check_spends
check_spends(u, image, new_spends) ==
    check_spends_(u, image, new_spends, Max(1, Len(new_spends)) - 1, 1, 0)

\* account::updated
updated(u, new_height) ==
    [u EXCEPT !.height = new_height, !.spends_ = <<>>, !.outputs_ = <<>>]

(***************************************************************************)
(* scanner.cpp: scan_transaction.  The result is [ok, users]; ok = FALSE   *)
(* stands for an exception leaving the function.                           *)
(***************************************************************************)
\* the spends of one user against every ring input of tx, input i onwards
RECURSIVE ScanInputs(_, _, _)
ScanInputs(u, vin, i) ==
    IF i > Len(vin) THEN u
    ELSE ScanInputs(check_spends(u, vin[i].k_image, vin[i].key_offsets), vin, i + 1)

\* ring_size after the input loop: the size of the last ring input, or 0
RingSize(vin) == IF Len(vin) = 0 THEN 0 ELSE Len(vin[Len(vin)].key_offsets)

\* the output loop of one user from output i (index i - 1) on; ext is the
\* flag variable declared before the loop and carried through it
RECURSIVE ScanOutputs(_, _, _, _, _, _, _)
ScanOutputs(u, ext, height, tx, out_ids, ring_size, i) ==
    IF i > Len(tx.vout) THEN [ok |-> TRUE, u |-> u]
    ELSE LET out == tx.vout[i]
         IN  IF out.owner # u.id
             THEN ScanOutputs(u, ext, height, tx, out_ids, ring_size, i + 1)
             ELSE IF out.amount = 0 /\ ~out.decodes
             THEN ScanOutputs(u, ext, height, tx, out_ids, ring_size, i + 1)
             ELSE IF i > Len(out_ids)
             THEN [ok |-> FALSE, u |-> u]
             ELSE LET ext2 == IF out.amount = 0 THEN ExtraOr(ext, kRingct) ELSE ext
                      row == [ height |-> height,
                               id |-> out_ids[i],
                               amount |-> IF out.amount = 0 THEN 7 ELSE out.amount,
                               mixin_count |-> Max(1, ring_size) - 1,
                               index |-> i - 1,
                               tx_hash |-> tx.hash,
                               extra |-> pack(ext2, tx.pid_len) ]
                  IN  ScanOutputs(add_out(u, row), ext2, height, tx, out_ids,
                                  ring_size, i + 1)

\* the body of the loop over users for one user
ScanUser(u, height, tx, out_ids) ==
    IF height <= u.height THEN [ok |-> TRUE, u |-> u]
    ELSE IF ~tx.derives THEN [ok |-> FALSE, u |-> u]
    ELSE LET ring_size == RingSize(tx.vin)
             ext == IF ring_size = 0 THEN kCoinbase ELSE kNone
         IN  ScanOutputs(ScanInputs(u, tx.vin, 1), ext, height, tx, out_ids,
                         ring_size, 1)

scan_transaction(users, height, tx, out_ids) ==
    IF 2 < tx.version THEN [ok |-> FALSE, users |-> users]
    ELSE IF ~tx.has_pub_key THEN [ok |-> TRUE, users |-> users]
    ELSE LET r == [i \in 1..Len(users) |-> ScanUser(users[i], height, tx, out_ids)]
         IN  [ ok |-> \A i \in 1..Len(users) : r[i].ok,
               users |-> [i \in 1..Len(users) |-> r[i].u] ]

\* the transactions of one block after its miner transaction, from tx i on
RECURSIVE ScanTxes(_, _, _, _)
ScanTxes(users, height, block, i) ==
    IF i > Len(block.transactions) THEN [ok |-> TRUE, users |-> users]
    ELSE LET r == scan_transaction(users, height, block.transactions[i],
                                   block.indices[i + 1])
         IN  IF ~r.ok THEN r ELSE ScanTxes(r.users, height, block, i + 1)

\* a pass of the block loop without the checks of the daemon's lists
ScanBlockUnchecked(users, height, block) ==
    IF Len(block.indices) = 0 THEN [ok |-> TRUE, users |-> users]
    ELSE LET m == scan_transaction(users, height, block.miner_tx, block.indices[1])
         IN  IF ~m.ok THEN m
             ELSE IF Len(block.transactions) # Len(block.indices) - 1
             THEN m
             ELSE ScanTxes(m.users, height, block, 1)

\* one pass of the block loop of scan_loop (lines 554-591)
ScanBlock(users, height, block) ==
    IF Len(block.tx_hashes) # Len(block.transactions)
    THEN [ok |-> FALSE, users |-> users]
    ELSE IF Len(block.indices) = 0 THEN [ok |-> FALSE, users |-> users]
    ELSE LET m == scan_transaction(users, height, block.miner_tx, block.indices[1])
         IN  IF ~m.ok THEN m
             ELSE IF Len(block.transactions) # Len(block.indices) - 1
             THEN [ok |-> FALSE, users |-> users]
             ELSE ScanTxes(m.users, height, block, 1)

\* the block loop of scan_loop over the entries block_data[i..] (a block
\* with its output indices), start_height being the counter
\* resp->start_height before the pass, blockchain the hashes pushed
RECURSIVE ScanBlockData(_, _, _, _, _)
ScanBlockData(users, start_height, blockchain, block_data, i) ==
    IF i > Len(block_data)
    THEN [ok |-> TRUE, users |-> users, start_height |-> start_height,
          blockchain |-> blockchain]
    ELSE LET r == ScanBlock(users, start_height + 1, block_data[i])
         IN  IF ~r.ok
             THEN [ok |-> FALSE, users |-> users, start_height |-> start_height,
                   blockchain |-> blockchain]
             ELSE ScanBlockData(r.users, start_height + 1,
                                Append(blockchain, block_data[i].hash),
                                block_data, i + 1)

\* the block loop over the blocks the peer has for hashes[i..]
ScanBlocks(users, start_height, blockchain, hashes, i) ==
    ScanBlockData(users, start_height, blockchain,
                  [j \in 1..Len(hashes) |-> BlockOf(hashes[j])], i)

\* a get_blocks_fast response as shipped, for the peer's answer
\* [start_height, hashes]: blocks and output_indices are parallel lists
Shipped(resp) ==
    [ start_height |-> resp.start_height,
      blocks |-> [j \in 1..Len(resp.hashes) |-> BlockOf(resp.hashes[j])],
      output_indices |-> [j \in 1..Len(resp.hashes) |->
                             BlockOf(resp.hashes[j]).indices] ]

\* scan_loop lines 538-592 for a shipped response of two or more blocks
\* with as many index lists: the first hash is pushed, the first block is
\* skipped as the overlap unless start_height = 1
ScanShipped(users, resp) ==
    LET block_data == [j \in 1..Len(resp.blocks) |->
                         [resp.blocks[j] EXCEPT !.indices = resp.output_indices[j]]]
    IN  IF resp.start_height # 1
        THEN ScanBlockData(users, resp.start_height, <<block_data[1].hash>>,
                           block_data, 2)
        ELSE ScanBlockData(users, 0, <<block_data[1].hash>>, block_data, 1)

\* the same for the peer's answer [start_height, hashes]
ScanResponse(users, resp) == ScanShipped(users, Shipped(resp))

(***************************************************************************)
(* State.                                                                  *)
(***************************************************************************)
VARIABLES
    peerTip,      \* height of the peer's newest block
    peerFork,     \* TRUE once the peer switched to the other branch at ForkPoint
    dbBlocks,     \* storage: block table, entry h + 1 = hash at height h
    dbAccounts,   \* storage: account id -> [scan_height, start_height, status]
    dbOutputs,    \* storage: account id -> output rows, in the order appended
    dbSpends,     \* storage: account id -> spend rows [id, image, mixin_count]
    adminDone,    \* TRUE once the administrator changed an account
    thread_count, \* fetch_loop's thread_count
    running,      \* scanner::running
    spc,          \* where the supervisor (fetch_loop / check_loop) is
    active,       \* check_loop's active: ids the epoch was started with
    update,       \* thread_sync::update
    cancel,       \* a message was published on the epoch's stop_scan endpoint
    known,        \* sync_chain's req.known_hashes
    wpc,          \* worker -> where its scan_loop is
    wusers,       \* worker -> its users
    wreq,         \* worker -> req.start_height of its last request
    wchain,       \* worker -> blockchain, the hashes of the scanned batch
    wend,         \* worker -> resp->start_height after the block loop
    wresult,      \* worker -> how its scan_loop was last left, "" in a new epoch
    wretried,     \* worker -> block_request was sent again after a timeout, unanswered
    rpc,          \* where the REST handler get_address_info is
    raccount,     \* the account the request is for
    rsnap,        \* the tables as the handler's storage_reader sees them
    rresp,        \* the response the handler has put together so far
    cs_pc,        \* "call" before account::check_spends is applied, then "done"
    cs_user,      \* the account check_spends is applied to
    cs_image,     \* its argument image
    cs_offsets,   \* its argument new_spends
    pk_pc,        \* "call" before db::pack is applied, then "done"
    pk_extra,     \* the flags to pack, a value of db::extra
    pk_length,    \* the length of the payment id to pack
    pk_out,       \* what db::unpack gives for the packed byte
    rs_account,   \* storage: the status of the address's account, "none" without one
    rs_pending,   \* storage: a creation request for the address is pending
    logged_in,    \* context::logged_in of the client's connection
    rs_request,   \* the last request the REST server handled
    rs_response,  \* its response [code, body]
    call_pc,      \* "call" before a function is applied to call_args, then "done"
    call_args,    \* the arguments of the function looked at
    call_result   \* what the function gives for them

peerVars == <<peerTip, peerFork>>
dbVars == <<dbBlocks, dbAccounts, dbOutputs, dbSpends>>
supVars == <<thread_count, spc, active, update, cancel, known>>
workerVars == <<wpc, wusers, wreq, wchain, wend, wresult, wretried>>
apiVars == <<rpc, raccount, rsnap, rresp>>
csVars == <<cs_pc, cs_user, cs_image, cs_offsets>>
packVars == <<pk_pc, pk_extra, pk_length, pk_out>>
restVars == <<rs_account, rs_pending, logged_in, rs_request, rs_response>>
callVars == <<call_pc, call_args, call_result>>
vars == <<peerVars, dbVars, adminDone, running, supVars, workerVars, apiVars, csVars,
          packVars, restVars, callVars>>

\* the peer's chain as a table of hashes
PeerHash(h) == Hash(h, IF peerFork /\ h >= ForkPoint THEN 1 ELSE 0)
PeerChain == [i \in 1..(peerTip + 1) |-> PeerHash(i - 1)]

(***************************************************************************)
(* The peer (the full node).                                               *)
(***************************************************************************)
\* get_blocks_fast: the blocks from start_height on, PeerMaxBlocks at most;
\* a start beyond the tip is refused (no blocks)
GetBlocksFast(start) ==
    [ start_height |-> start,
      hashes |-> IF start > peerTip THEN <<>>
                 ELSE SubSeq(PeerChain, start + 1,
                             Min(peerTip, start + PeerMaxBlocks - 1) + 1) ]

\* index of the first entry of list that is a block of the peer's chain, or 0
RECURSIVE FirstKnown(_, _)
FirstKnown(list, i) ==
    IF i > Len(list) THEN 0
    ELSE IF HeightOf(list[i]) <= peerTip /\ PeerHash(HeightOf(list[i])) = list[i]
         THEN i
         ELSE FirstKnown(list, i + 1)

\* get_hashes_fast: the peer's hashes from the newest block of the locator
\* that is on its chain
GetHashesFast(locator) ==
    LET i == FirstKnown(locator, 1)
        start == IF i = 0 THEN 0 ELSE HeightOf(locator[i])
    IN  [ ok |-> i # 0, start_height |-> start,
          hashes |-> IF i = 0 THEN <<>> ELSE SubSeq(PeerChain, start + 1, peerTip + 1) ]

\* the peer finds a block
PeerMine ==
    /\ peerTip < MaxHeight
    /\ peerTip' = peerTip + 1
    /\ UNCHANGED <<peerFork, dbVars, adminDone, running, supVars, workerVars>>
    /\ UNCHANGED <<apiVars, csVars, packVars, restVars, callVars>>

\* the peer switches to another branch from ForkPoint on
PeerReorg ==
    /\ ~peerFork
    /\ peerTip >= ForkPoint
    /\ peerFork' = TRUE
    /\ UNCHANGED <<peerTip, dbVars, adminDone, running, supVars, workerVars>>
    /\ UNCHANGED <<apiVars, csVars, packVars, restVars, callVars>>

(***************************************************************************)
(* Storage (db::storage).                                                  *)
(***************************************************************************)
\* rows ordered by (height, id): the order of the outputs table
RowBefore(a, b) == a.height < b.height \/ (a.height = b.height /\ a.id < b.id)

RECURSIVE InsertRow(_, _)
InsertRow(rows, r) ==
    IF rows = <<>> THEN <<r>>
    ELSE IF RowBefore(r, Head(rows)) THEN <<r>> \o rows
         ELSE <<Head(rows)>> \o InsertRow(Tail(rows), r)

RECURSIVE OrderRows(_)
OrderRows(rows) ==
    IF rows = <<>> THEN <<>>
    ELSE InsertRow(OrderRows(SubSeq(rows, 1, Len(rows) - 1)), rows[Len(rows)])

\* storage_reader::get_outputs
get_outputs(outputs, a) == OrderRows(outputs[a])

\* storage_reader::get_accounts(kActive): ids ascending
get_accounts(accounts) ==
    SortedSeq({a \in Accounts : accounts[a].status = "active"})

\* storage_reader::get_chain_sync: the newest hash, then hashes at doubling
\* distances below it, then the genesis hash
RECURSIVE LocatorHeights(_, _)
LocatorHeights(top, step) ==
    IF top - step <= 0 THEN <<0>>
    ELSE <<top - step>> \o LocatorHeights(top, 2 * step)

get_chain_sync(blocks) ==
    IF blocks = <<>> THEN <<>>
    ELSE LET top == Len(blocks) - 1
             hs == IF top = 0 THEN <<0>> ELSE <<top>> \o LocatorHeights(top, 1)
         IN  [i \in 1..Len(hs) |-> blocks[hs[i] + 1]]

\* storage::sync_chain(start, hashes): blocks[start..] are replaced; the
\* block at start must be stored and equal to the first hash
sync_chain(blocks, start, hashes) ==
    IF hashes = <<>> \/ start + 1 > Len(blocks) \/ blocks[start + 1] # hashes[1]
    THEN [err |-> "BadBlockchain", blocks |-> blocks]
    ELSE [err |-> "", blocks |-> SubSeq(blocks, 1, start) \o hashes]

\* storage::update(height, chain, users), one write transaction
UserOf(users, a) == CHOOSE i \in 1..Len(users) : users[i].id = a

db_update(height, chain, users) ==
    LET unchanged == [ blocks |-> dbBlocks, accounts |-> dbAccounts,
                       outputs |-> dbOutputs, spends |-> dbSpends ]
    IN
    IF chain = <<>> \/ height + 1 > Len(dbBlocks) \/ dbBlocks[height + 1] # chain[1]
    THEN [err |-> "BlockchainReorg", count |-> 0] @@ unchanged
    ELSE LET last == height + Len(chain) - 1
             taken == { a \in Accounts :
                          \E i \in 1..Len(users) :
                             /\ users[i].id = a
                             /\ dbAccounts[a].scan_height = users[i].height }
         IN  [ err |-> "",
               count |-> Cardinality(taken),
               blocks |-> SubSeq(dbBlocks, 1, height + 1) \o Tail(chain),
               accounts |-> [a \in Accounts |->
                               IF a \in taken
                               THEN [dbAccounts[a] EXCEPT !.scan_height = last]
                               ELSE dbAccounts[a]],
               outputs |-> [a \in Accounts |->
                               IF a \in taken
                               THEN dbOutputs[a] \o users[UserOf(users, a)].outputs_
                               ELSE dbOutputs[a]],
               spends |-> [a \in Accounts |->
                               IF a \in taken
                               THEN dbSpends[a] \o users[UserOf(users, a)].spends_
                               ELSE dbSpends[a]] ]

\* an accepted import-scan request (db::request::kImportScan): the account's
\* start and scan height are set to zero
AcceptImport(a) ==
    /\ ~adminDone
    /\ dbAccounts[a].scan_height > 0
    /\ adminDone' = TRUE
    /\ dbAccounts' = [dbAccounts EXCEPT ![a].scan_height = 0, ![a].start_height = 0]
    /\ UNCHANGED <<peerVars, dbBlocks, dbOutputs, dbSpends, running, supVars, workerVars>>
    /\ UNCHANGED <<apiVars, csVars, packVars, restVars, callVars>>

\* the administrator changes the status of an account (db::account_status)
ChangeStatus(a) ==
    /\ ~adminDone
    /\ adminDone' = TRUE
    /\ dbAccounts' = [dbAccounts EXCEPT ![a].status =
                         IF @ = "active" THEN "inactive" ELSE "active"]
    /\ UNCHANGED <<peerVars, dbBlocks, dbOutputs, dbSpends, running, supVars, workerVars>>
    /\ UNCHANGED <<apiVars, csVars, packVars, restVars, callVars>>

\* the administrator deactivates account a and activates account b between
\* two polls of the supervisor
ReplaceActive(a, b) ==
    /\ ~adminDone
    /\ dbAccounts[a].status = "active"
    /\ dbAccounts[b].status = "inactive"
    /\ adminDone' = TRUE
    /\ dbAccounts' = [dbAccounts EXCEPT ![a].status = "inactive",
                                        ![b].status = "active"]
    /\ UNCHANGED <<peerVars, dbBlocks, dbOutputs, dbSpends, running, supVars, workerVars>>
    /\ UNCHANGED <<apiVars, csVars, packVars, restVars, callVars>>

(***************************************************************************)
(* scanner.cpp: scan_loop, one worker thread.                              *)
(* wpc: "none" (no thread), "start", "loop" (top of the while loop),       *)
(* "wait" (in mzmq::wait for the response), "tipsleep" (in the wait of     *)
(* block_poll_interval), "commit" (before disk.update), "done".            *)
(***************************************************************************)
NoUsers == <<>>

\* scanner::stop()
stop == running' = FALSE

\* scan_loop is left: its locals are destroyed, stop_ sets thread_sync::update
Leave(w, how) ==
    /\ wpc' = [wpc EXCEPT ![w] = "done"]
    /\ wresult' = [wresult EXCEPT ![w] = how]
    /\ wusers' = [wusers EXCEPT ![w] = NoUsers]
    /\ wreq' = [wreq EXCEPT ![w] = 0]
    /\ wchain' = [wchain EXCEPT ![w] = <<>>]
    /\ wend' = [wend EXCEPT ![w] = 0]
    /\ wretried' = [wretried EXCEPT ![w] = FALSE]
    /\ update' = TRUE

\* a return statement of scan_loop; how is what the worker logged
Return(w, how) == Leave(w, how) /\ UNCHANGED running

\* an exception that is caught without scanner::stop()
ThrowWithoutStop(w) == Leave(w, "exception") /\ UNCHANGED running

\* lines 617-626: an exception is caught, scanner::stop()
Throw(w) == Leave(w, "exception") /\ stop

\* a first request for users.front().scan_height() as it is
WorkerStartUnclamped(w) ==
    /\ wpc[w] = "start"
    /\ wreq' = [wreq EXCEPT ![w] = wusers[w][1].height]
    /\ wpc' = [wpc EXCEPT ![w] = "loop"]
    /\ UNCHANGED <<peerVars, dbVars, adminDone, running, supVars,
                   wusers, wchain, wend, wresult, wretried>>
    /\ UNCHANGED <<apiVars, csVars, packVars, restVars, callVars>>

\* lines 482-489: the first request, for max(1, users.front().scan_height())
WorkerStart(w) ==
    /\ wpc[w] = "start"
    /\ wreq' = [wreq EXCEPT ![w] = Max(1, wusers[w][1].height)]
    /\ wpc' = [wpc EXCEPT ![w] = "loop"]
    /\ UNCHANGED <<peerVars, dbVars, adminDone, running, supVars,
                   wusers, wchain, wend, wresult, wretried>>
    /\ UNCHANGED <<apiVars, csVars, packVars, restVars, callVars>>

\* lines 512-592 for the shipped response resp: the response is checked,
\* the next request is sent, the blocks are scanned
Take(w, resp) ==
    LET n == Len(resp.blocks)
    IN
    IF n = 0 THEN Throw(w)
    ELSE IF resp.start_height # wreq[w] THEN Return(w, "wrong blocks")
    ELSE IF n <= 1
    THEN /\ wreq' = [wreq EXCEPT ![w] = resp.start_height + n - 1]
         /\ wpc' = [wpc EXCEPT ![w] = "tipsleep"]
         /\ wretried' = [wretried EXCEPT ![w] = FALSE]
         /\ UNCHANGED <<running, update, wusers, wchain, wend, wresult>>
    ELSE IF n # Len(resp.output_indices) THEN Throw(w)
    ELSE LET r == ScanShipped(wusers[w], resp)
         IN  IF ~r.ok THEN Throw(w)
             ELSE /\ wreq' = [wreq EXCEPT ![w] = resp.start_height + n - 1]
                  /\ wusers' = [wusers EXCEPT ![w] = r.users]
                  /\ wchain' = [wchain EXCEPT ![w] = r.blockchain]
                  /\ wend' = [wend EXCEPT ![w] = r.start_height]
                  /\ wpc' = [wpc EXCEPT ![w] = "commit"]
                  /\ wretried' = [wretried EXCEPT ![w] = FALSE]
                  /\ UNCHANGED <<running, update, wresult>>

\* the same with the response the peer gives to the outstanding request.
\* The response holds the peer's chain as it is when the worker takes it:
\* a worker shares only the storage and the flags update and cancel with
\* the other threads, so an earlier answer taken later gives the runs of a
\* worker that took it at once and was slow afterwards.
Process(w) == Take(w, Shipped(GetBlocksFast(wreq[w])))

\* lines 493-497: the loop condition, then receive(): a response that has
\* arrived is taken at once, otherwise the worker blocks in mzmq::wait
WorkerLoop(w) ==
    /\ wpc[w] = "loop"
    /\ IF update \/ ~running THEN Return(w, "stopped")
       ELSE \/ /\ wpc' = [wpc EXCEPT ![w] = "wait"]
               /\ UNCHANGED <<running, update, wusers, wreq, wchain, wend, wresult, wretried>>
            \/ Process(w)
    /\ UNCHANGED <<peerVars, dbVars, adminDone, thread_count, spc, active, cancel, known>>
    /\ UNCHANGED <<apiVars, csVars, packVars, restVars, callVars>>

\* a wait that looks at the daemon socket before the cancel socket
WorkerWaitDaemonFirst(w) ==
    /\ wpc[w] = "wait"
    /\ \/ Process(w)
       \/ cancel /\ Return(w, "AbortScan")
    /\ UNCHANGED <<peerVars, dbVars, adminDone, thread_count, spc, active, cancel, known>>
    /\ UNCHANGED <<apiVars, csVars, packVars, restVars, callVars>>

\* mzmq::wait inside receive(): the cancel socket is looked at first; with
\* the response there it is processed; after block_rpc_timeout the request
\* is sent again (lines 503-509)
WorkerWait(w) ==
    /\ wpc[w] = "wait"
    /\ IF cancel THEN Return(w, "AbortScan")
       ELSE \/ /\ wpc' = [wpc EXCEPT ![w] = "loop"]
               /\ wretried' = [wretried EXCEPT ![w] = TRUE]
               /\ UNCHANGED <<running, update, wusers, wreq, wchain, wend, wresult>>
            \/ Process(w)
    /\ UNCHANGED <<peerVars, dbVars, adminDone, thread_count, spc, active, cancel, known>>
    /\ UNCHANGED <<apiVars, csVars, packVars, restVars, callVars>>

\* lines 527-533: at the tip, mzmq::wait(comm, 0, block_poll_interval)
WorkerTipSleep(w) ==
    /\ wpc[w] = "tipsleep"
    /\ IF cancel THEN Return(w, "AbortScan at the tip")
       ELSE /\ wpc' = [wpc EXCEPT ![w] = "loop"]
            /\ UNCHANGED <<running, update, wusers, wreq, wchain, wend, wresult, wretried>>
    /\ UNCHANGED <<peerVars, dbVars, adminDone, thread_count, spc, active, cancel, known>>
    /\ UNCHANGED <<apiVars, csVars, packVars, restVars, callVars>>

\* lines 606-615: the rows of a successful update r are stored; the worker
\* goes on when every user was updated
AfterUpdate(w, r) ==
    /\ dbBlocks' = r.blocks
    /\ dbAccounts' = r.accounts
    /\ dbOutputs' = r.outputs
    /\ dbSpends' = r.spends
    /\ IF r.count # Len(wusers[w]) THEN Return(w, "only updated")
       ELSE /\ wusers' = [wusers EXCEPT ![w] =
                   [i \in 1..Len(wusers[w]) |-> updated(wusers[w][i], wend[w])]]
            /\ wpc' = [wpc EXCEPT ![w] = "loop"]
            /\ wchain' = [wchain EXCEPT ![w] = <<>>]
            /\ wend' = [wend EXCEPT ![w] = 0]
            /\ UNCHANGED <<running, update, wreq, wresult, wretried>>

\* a commit that goes on scanning after BlockchainReorg
WorkerCommitIgnoringReorg(w) ==
    /\ wpc[w] = "commit"
    /\ LET r == db_update(wusers[w][1].height, wchain[w], wusers[w])
       IN  IF r.err = "BlockchainReorg"
           THEN /\ wpc' = [wpc EXCEPT ![w] = "loop"]
                /\ UNCHANGED <<dbVars, running, update, wusers, wreq, wchain, wend, wresult, wretried>>
           ELSE AfterUpdate(w, r)
    /\ UNCHANGED <<peerVars, adminDone, thread_count, spc, active, cancel, known>>
    /\ UNCHANGED <<apiVars, csVars, packVars, restVars, callVars>>

\* a commit that does not compare the count of updated users
WorkerCommitIgnoringCount(w) ==
    /\ wpc[w] = "commit"
    /\ LET r == db_update(wusers[w][1].height, wchain[w], wusers[w])
       IN  IF r.err = "BlockchainReorg"
           THEN Return(w, "BlockchainReorg") /\ UNCHANGED dbVars
           ELSE AfterUpdate(w, [r EXCEPT !.count = Len(wusers[w])])
    /\ UNCHANGED <<peerVars, adminDone, thread_count, spc, active, cancel, known>>
    /\ UNCHANGED <<apiVars, csVars, packVars, restVars, callVars>>

\* a commit that passes the scan height of users.back()
WorkerCommitFromBack(w) ==
    /\ wpc[w] = "commit"
    /\ LET r == db_update(wusers[w][Len(wusers[w])].height, wchain[w], wusers[w])
       IN  IF r.err = "BlockchainReorg"
           THEN Return(w, "BlockchainReorg") /\ UNCHANGED dbVars
           ELSE AfterUpdate(w, r)
    /\ UNCHANGED <<peerVars, adminDone, thread_count, spc, active, cancel, known>>
    /\ UNCHANGED <<apiVars, csVars, packVars, restVars, callVars>>

\* lines 594-616: disk.update, then updated() for every user
WorkerCommit(w) ==
    /\ wpc[w] = "commit"
    /\ LET r == db_update(wusers[w][1].height, wchain[w], wusers[w])
       IN  IF r.err = "BlockchainReorg"
           THEN Return(w, "BlockchainReorg") /\ UNCHANGED dbVars
           ELSE AfterUpdate(w, r)
    /\ UNCHANGED <<peerVars, adminDone, thread_count, spc, active, cancel, known>>
    /\ UNCHANGED <<apiVars, csVars, packVars, restVars, callVars>>

(***************************************************************************)
(* scanner.cpp: fetch_loop, check_loop and sync_chain, the supervisor.     *)
(* spc: "read", "emptywait", "poll", "join", "sync", "done", "thrown".     *)
(***************************************************************************)
\* std::sort(users, by_height{})
RECURSIVE InsertByHeight(_, _)
InsertByHeight(us, u) ==
    IF us = <<>> THEN <<u>>
    ELSE IF u.height < Head(us).height THEN <<u>> \o us
         ELSE <<Head(us)>> \o InsertByHeight(Tail(us), u)

RECURSIVE SortByHeight(_)
SortByHeight(us) ==
    IF us = <<>> THEN <<>>
    ELSE InsertByHeight(SortByHeight(SubSeq(us, 1, Len(us) - 1)), us[Len(us)])

\* slices taken from the end of users without erasing what was taken
RECURSIVE SlicesWithoutErase(_, _, _)
SlicesWithoutErase(users, count, per_thread) ==
    IF users = <<>> THEN <<>>
    ELSE IF count - 1 = 0 THEN <<users>>
    ELSE LET c == Min(per_thread, Len(users))
         IN  <<SubSeq(users, Len(users) - c + 1, Len(users))>>
             \o SlicesWithoutErase(users, count - 1, per_thread)

\* lines 690-710: slices of per_thread users are taken from the end while
\* --thread_count is not zero; the rest goes to one more thread
RECURSIVE Slices(_, _, _)
Slices(users, count, per_thread) ==
    IF users = <<>> THEN <<>>
    ELSE IF count - 1 = 0 THEN <<users>>
    ELSE LET c == Min(per_thread, Len(users))
         IN  <<SubSeq(users, Len(users) - c + 1, Len(users))>>
             \o Slices(SubSeq(users, 1, Len(users) - c), count - 1, per_thread)

\* fetch_loop lines 889-918: the users of the active accounts
ReadUsers ==
    LET ids == get_accounts(dbAccounts)
    IN  [i \in 1..Len(ids) |->
            LET rows == get_outputs(dbOutputs, ids[i])
            IN  account(ids[i], dbAccounts[ids[i]].scan_height,
                        [j \in 1..Len(rows) |-> rows[j].id])]

\* fetch_loop lines 889-926 and check_loop lines 634-716
SupRead ==
    /\ spc = "read"
    /\ \E users \in {ReadUsers} :
       \E sl \in {Slices(SortByHeight(users), thread_count,
                          Max(1, Len(users) \div thread_count))} :
           IF users = <<>>
           THEN /\ spc' = "emptywait"
                /\ UNCHANGED <<active, update, cancel, workerVars>>
           ELSE /\ spc' = "poll"
                /\ active' = get_accounts(dbAccounts)
                /\ update' = FALSE
                /\ cancel' = FALSE
                /\ wpc' = [w \in Workers |-> IF w <= Len(sl) THEN "start" ELSE "none"]
                /\ wusers' = [w \in Workers |-> IF w <= Len(sl) THEN sl[w] ELSE NoUsers]
                /\ wreq' = [w \in Workers |-> 0]
                /\ wchain' = [w \in Workers |-> <<>>]
                /\ wend' = [w \in Workers |-> 0]
                /\ wresult' = [w \in Workers |-> ""]
                /\ wretried' = [w \in Workers |-> FALSE]
    /\ UNCHANGED <<peerVars, dbVars, adminDone, running, thread_count, known>>
    /\ UNCHANGED <<apiVars, csVars, packVars, restVars, callVars>>

\* check_loop lines 747-761: the number of active accounts differs, or an
\* active account is not found in active
ActiveChanged(current, act) ==
    \/ Len(current) # Len(act)
    \/ \E i \in 1..Len(current) : ~binary_search(act, current[i])

\* a check_loop that is left without ~join_ setting update and publishing
\* the cancel message
SupPollSilent ==
    /\ spc = "poll"
    /\ update \/ ~running \/ ActiveChanged(get_accounts(dbAccounts), active)
    /\ spc' = "join"
    /\ UNCHANGED <<peerVars, dbVars, adminDone, running, thread_count, active, known,
                   update, cancel, workerVars>>
    /\ UNCHANGED <<apiVars, csVars, packVars, restVars, callVars>>

\* check_loop lines 718-767 and ~join_: left when a worker is gone, when the
\* scanner is stopped or when the active accounts changed
SupPoll ==
    /\ spc = "poll"
    /\ update \/ ~running \/ ActiveChanged(get_accounts(dbAccounts), active)
    /\ update' = TRUE
    /\ cancel' = TRUE
    /\ spc' = "join"
    /\ UNCHANGED <<peerVars, dbVars, adminDone, running, thread_count, active, known,
                   workerVars>>
    /\ UNCHANGED <<apiVars, csVars, packVars, restVars, callVars>>

\* fetch_loop lines 928-935 after check_loop or checked_wait returned
AfterEpoch ==
    IF ~running
    THEN spc' = "done" /\ UNCHANGED known
    ELSE spc' = "sync" /\ known' = get_chain_sync(dbBlocks)

\* ~join_ lines 658-659: every thread is joined
SupJoin ==
    /\ spc = "join"
    /\ \A w \in Workers : wpc[w] \in {"none", "done"}
    /\ AfterEpoch
    /\ wpc' = [w \in Workers |-> "none"]
    /\ UNCHANGED <<peerVars, dbVars, adminDone, running, thread_count, active, update,
                   cancel, wusers, wreq, wchain, wend, wresult, wretried>>
    /\ UNCHANGED <<apiVars, csVars, packVars, restVars, callVars>>

\* fetch_loop lines 920-924: no active account, checked_wait
SupEmptyWait ==
    /\ spc = "emptywait"
    /\ AfterEpoch
    /\ UNCHANGED <<peerVars, dbVars, adminDone, running, thread_count, active, update,
                   cancel, workerVars>>
    /\ UNCHANGED <<apiVars, csVars, packVars, restVars, callVars>>

\* a locator that takes every hash of the response
NextLocatorUncapped(locator, hashes) ==
    [i \in 1..Len(hashes) |-> hashes[Len(hashes) - i + 1]] \o <<locator[Len(locator)]>>

\* lines 848-857: the locator of the next round
NextLocator(locator, hashes) ==
    LET n == Min(10, Len(hashes))
    IN  [i \in 1..n |-> hashes[Len(hashes) - i + 1]] \o <<locator[Len(locator)]>>

\* sync_chain lines 790-858, one round answered by the peer, for the locator
\* and the block table given: spc is "read" when sync_chain returns with
\* success, "thrown" when it returns an error, "sync" when a round follows
sync_round(locator, blocks) ==
    LET resp == GetHashesFast(locator)
        sync == sync_chain(blocks, resp.start_height, resp.hashes)
    IN  IF locator = <<>> \/ ~resp.ok
        THEN [spc |-> "thrown", known |-> locator, blocks |-> blocks]
        ELSE IF Len(resp.hashes) <= 1 \/ resp.hashes[Len(resp.hashes)] = locator[1]
        THEN [spc |-> "read", known |-> <<>>, blocks |-> blocks]
        ELSE IF sync.err # ""
        THEN [spc |-> "thrown", known |-> locator, blocks |-> blocks]
        ELSE [spc |-> "sync", known |-> NextLocator(locator, resp.hashes),
              blocks |-> sync.blocks]

SupSyncRound ==
    /\ spc = "sync"
    /\ \E r \in {sync_round(known, dbBlocks)} :
          /\ spc' = r.spc
          /\ known' = r.known
          /\ dbBlocks' = r.blocks
    /\ UNCHANGED <<peerVars, dbAccounts, dbOutputs, dbSpends, adminDone, running,
                   thread_count, active, update, cancel, workerVars>>
    /\ UNCHANGED <<apiVars, csVars, packVars, restVars, callVars>>

\* sync_chain lines 797-834 with the scanner stopped while the send or the
\* receive would block: kAbortScan, which fetch_loop (lines 936-939) throws
SupSyncAbort ==
    /\ spc = "sync"
    /\ ~running
    /\ spc' = "thrown"
    /\ UNCHANGED <<peerVars, dbVars, adminDone, running, thread_count, active, update,
                   cancel, known, workerVars>>
    /\ UNCHANGED <<apiVars, csVars, packVars, restVars, callVars>>

\* SIGINT: scanner::stop()
Stop ==
    /\ running
    /\ stop
    /\ UNCHANGED <<peerVars, dbVars, adminDone, supVars, workerVars>>
    /\ UNCHANGED <<apiVars, csVars, packVars, restVars, callVars>>

(***************************************************************************)
(* Initial states: the chain is synced up to InitTip; every account is     *)
(* active, was created at some start height and has been scanned up to its *)
(* scan height by an earlier run.                                          *)
(***************************************************************************)
InitChain == [i \in 1..(InitTip + 1) |-> Hash(i - 1, 0)]

\* (start_height, scan_height) an account may have when the server starts:
\* account 1 is new, account 2 is new or was scanned up to the tip
InitHeights(a) ==
    IF a = 1 THEN {<<0, 0>>, <<1, 1>>, <<2, 2>>}
    ELSE {<<2, 2>>, <<InitTip - 1, InitTip>>}

\* the status account 2 may have; an inactive account was never scanned
InitStatus == {"active", "inactive"}

\* the in-memory state of account a after the blocks start + 1 .. scan
Scanned(a, start, scan) ==
    ScanBlocks(<<account(a, start, <<>>)>>, start, <<>>,
               SubSeq(InitChain, 1, scan + 1), start + 2).users[1]

\* the scanner before fetch_loop starts: the accounts' heights drawn from H1
\* and H2, the status of account 2 from ST, thread_count from TC
InitScanner(H1, H2, ST, TC) ==
    /\ peerTip = InitTip
    /\ peerFork = FALSE
    /\ dbBlocks = InitChain
    /\ \E h1 \in H1, h2 \in H2, st \in ST :
          LET hs == <<h1, h2>>
              mem == [a \in 1..2 |-> Scanned(a, hs[a][1], hs[a][2])]
          IN  /\ st = "active" \/ h2[1] = h2[2]
              /\ dbAccounts = [a \in Accounts |->
                    [scan_height |-> hs[a][2], start_height |-> hs[a][1],
                     status |-> IF a = 1 THEN "active" ELSE st]]
              /\ dbOutputs = [a \in Accounts |-> mem[a].outputs_]
              /\ dbSpends = [a \in Accounts |-> mem[a].spends_]
    /\ adminDone = FALSE
    /\ thread_count \in TC
    /\ running = TRUE
    /\ spc = "read"
    /\ active = <<>>
    /\ update = FALSE
    /\ cancel = FALSE
    /\ known = <<>>
    /\ wpc = [w \in Workers |-> "none"]
    /\ wusers = [w \in Workers |-> NoUsers]
    /\ wreq = [w \in Workers |-> 0]
    /\ wchain = [w \in Workers |-> <<>>]
    /\ wend = [w \in Workers |-> 0]
    /\ wresult = [w \in Workers |-> ""]
    /\ wretried = [w \in Workers |-> FALSE]

\* no REST request is being served
NoSnapshot == [blocks |-> <<>>, accounts |-> <<>>, outputs |-> <<>>, spends |-> <<>>]
NoResponse == [scan_height |-> 0, start_height |-> 0, outputs |-> <<>>,
               last |-> 0, spends |-> <<>>]

ApiIdle ==
    /\ rpc = "idle"
    /\ raccount = 0
    /\ rsnap = NoSnapshot
    /\ rresp = NoResponse

\* no call of check_spends is being looked at
CsIdle ==
    /\ cs_pc = "done"
    /\ cs_user = account(0, 0, <<>>)
    /\ cs_image = 0
    /\ cs_offsets = <<>>

\* no call of pack is being looked at
PackIdle ==
    /\ pk_pc = "done"
    /\ pk_extra = kNone
    /\ pk_length = 0
    /\ pk_out = <<kNone, 0>>

NoRequest == [uri |-> "", key_ok |-> FALSE, create |-> FALSE, amount |-> 0]

\* no function is looked at on its own
CallIdle ==
    /\ call_pc = "done"
    /\ call_args = <<>>
    /\ call_result = <<>>

\* no REST request is handled
RestIdle ==
    /\ rs_account = "none"
    /\ rs_pending = FALSE
    /\ logged_in = FALSE
    /\ rs_request = NoRequest
    /\ rs_response = [code |-> 0, body |-> ""]

Init ==
    /\ InitScanner(InitHeights(1), InitHeights(2), InitStatus, Workers)
    /\ ApiIdle
    /\ CsIdle
    /\ PackIdle
    /\ RestIdle
    /\ CallIdle

Next ==
    \/ PeerMine
    \/ PeerReorg
    \/ \E a \in Accounts : AcceptImport(a)
    \/ \E a \in Accounts : ChangeStatus(a)
    \/ \E a, b \in Accounts : ReplaceActive(a, b)
    \/ Stop
    \/ SupRead
    \/ SupPoll
    \/ SupJoin
    \/ SupEmptyWait
    \/ SupSyncRound
    \/ SupSyncAbort
    \/ \E w \in Workers : WorkerStart(w)
    \/ \E w \in Workers : WorkerLoop(w)
    \/ \E w \in Workers : WorkerWait(w)
    \/ \E w \in Workers : WorkerTipSleep(w)
    \/ \E w \in Workers : WorkerCommit(w)

Spec == Init /\ [][Next]_vars

(***************************************************************************)
(* The scanner under fair scheduling: the supervisor thread and every      *)
(* worker thread that can take a step eventually takes one.  The peer      *)
(* keeps mining, the operator may stop the scanner.                        *)
(***************************************************************************)
SupStep ==
    \/ SupRead
    \/ SupPoll
    \/ SupJoin
    \/ SupEmptyWait
    \/ SupSyncRound
    \/ SupSyncAbort

WorkerStep(w) ==
    \/ WorkerStart(w)
    \/ WorkerLoop(w)
    \/ WorkerWait(w)
    \/ WorkerTipSleep(w)
    \/ WorkerCommit(w)

InitLive ==
    /\ InitScanner({<<2, 2>>}, {<<2, 2>>}, InitStatus, Workers)
    /\ ApiIdle
    /\ CsIdle
    /\ PackIdle
    /\ RestIdle
    /\ CallIdle

NextLive ==
    \/ PeerMine
    \/ \E a \in Accounts : ChangeStatus(a)
    \/ Stop
    \/ SupStep
    \/ \E w \in Workers : WorkerStep(w)

LiveSpec ==
    /\ InitLive
    /\ [][NextLive]_vars
    /\ WF_vars(SupStep)
    /\ \A w \in Workers : WF_vars(WorkerStep(w))

(***************************************************************************)
(* The scanner with a daemon that may ship malformed responses, with sends *)
(* that may time out and a storage that may fail, under the same fair      *)
(* scheduling.                                                             *)
(***************************************************************************)
\* responses the checks of scan_loop lines 512-536 and 554-578 are for
Malformed == {"empty", "start_height", "output_indices", "tx_hashes", "tx_indices",
              "coinbase_indices"}

\* transactions scan_transaction throws on (lines 324-325 and 344-346)
Unscannable == {"version", "derivation"}

\* the entries of s with entry i replaced by v
WithEntry(s, i, v) == [j \in 1..Len(s) |-> IF j = i THEN v ELSE s[j]]

\* the shipped response resp with fault f in its last block
Faulty(resp, f) ==
    LET n == Len(resp.blocks)
        last == resp.blocks[n]
        tx == last.transactions[1]
    IN  CASE f = "empty" ->
               [resp EXCEPT !.blocks = <<>>, !.output_indices = <<>>]
          [] f = "start_height" ->
               [resp EXCEPT !.start_height = @ + 1]
          [] f = "output_indices" ->
               [resp EXCEPT !.output_indices = SubSeq(@, 1, n - 1)]
          [] f = "tx_hashes" ->
               [resp EXCEPT !.blocks = WithEntry(@, n, [last EXCEPT !.tx_hashes = <<>>])]
          [] f = "tx_indices" ->
               [resp EXCEPT !.output_indices =
                               WithEntry(@, n, SubSeq(resp.output_indices[n], 1, 1))]
          [] f = "coinbase_indices" ->
               [resp EXCEPT !.output_indices = WithEntry(@, n, <<>>)]
          [] f = "version" ->
               [resp EXCEPT !.blocks =
                   WithEntry(@, n, [last EXCEPT !.transactions =
                                       <<[tx EXCEPT !.version = 3]>>])]
          [] f = "derivation" ->
               [resp EXCEPT !.blocks =
                   WithEntry(@, n, [last EXCEPT !.transactions =
                                       <<[tx EXCEPT !.derives = FALSE]>>])]

\* the worker takes a response with fault f to its outstanding request
WorkerBadResponse(w, f) ==
    /\ \/ wpc[w] = "loop" /\ ~update /\ running
       \/ wpc[w] = "wait" /\ ~cancel
    /\ wreq[w] <= peerTip
    /\ Take(w, Faulty(Shipped(GetBlocksFast(wreq[w])), f))
    /\ UNCHANGED <<peerVars, dbVars, adminDone, thread_count, spc, active, cancel, known>>
    /\ UNCHANGED <<apiVars, csVars, packVars, restVars, callVars>>

\* mzmq::send lines 227-232: the daemon socket does not become writable
\* within send_timeout, "ZMQ send failure" is thrown
WorkerSendTimeout(w) ==
    /\ wpc[w] = "start"
    /\ Throw(w)
    /\ UNCHANGED <<peerVars, dbVars, adminDone, thread_count, spc, active, cancel, known>>
    /\ UNCHANGED <<apiVars, csVars, packVars, restVars, callVars>>

\* lines 596-604: update fails with an error that is not BlockchainReorg,
\* nothing is written
WorkerStorageError(w) ==
    /\ wpc[w] = "commit"
    /\ Throw(w)
    /\ UNCHANGED <<peerVars, dbVars, adminDone, thread_count, spc, active, cancel, known>>
    /\ UNCHANGED <<apiVars, csVars, packVars, restVars, callVars>>

InitFault ==
    /\ InitScanner({<<0, 0>>, <<2, 2>>}, {<<2, 2>>}, InitStatus, Workers)
    /\ ApiIdle
    /\ CsIdle
    /\ PackIdle
    /\ RestIdle
    /\ CallIdle

\* the supervisor's steps with account 1 active: fetch_loop always finds an
\* account to scan
SupStepActive ==
    \/ SupRead
    \/ SupPoll
    \/ SupJoin
    \/ SupSyncRound
    \/ SupSyncAbort

NextFault ==
    \/ PeerMine
    \/ Stop
    \/ SupStepActive
    \/ \E w \in Workers : WorkerStep(w)
    \/ \E w \in Workers : \E f \in Malformed \cup Unscannable : WorkerBadResponse(w, f)
    \/ \E w \in Workers : WorkerSendTimeout(w)
    \/ \E w \in Workers : WorkerStorageError(w)

FaultSpec ==
    /\ InitFault
    /\ [][NextFault]_vars
    /\ WF_vars(SupStepActive)
    /\ \A w \in Workers : WF_vars(WorkerStep(w))

(***************************************************************************)
(* rest_server.cpp: get_address_info, served while the scanner runs.       *)
(* rpc: "idle", "account", "outputs", "spends", "reply".                   *)
(***************************************************************************)
\* line 260: disk.start_read(), the read transaction of the request
ApiStartRead(a) ==
    /\ rpc = "idle"
    /\ rpc' = "account"
    /\ raccount' = a
    /\ rsnap' = [blocks |-> dbBlocks, accounts |-> dbAccounts,
                 outputs |-> dbOutputs, spends |-> dbSpends]
    /\ rresp' = NoResponse
    /\ UNCHANGED <<peerVars, dbVars, adminDone, running, supVars, workerVars, csVars, packVars, restVars, callVars>>

\* lines 264-267: get_account(root, *reader)
ApiGetAccount ==
    /\ rpc = "account"
    /\ rresp' = [rresp EXCEPT !.scan_height = rsnap.accounts[raccount].scan_height,
                              !.start_height = rsnap.accounts[raccount].start_height]
    /\ rpc' = "outputs"
    /\ UNCHANGED <<peerVars, dbVars, adminDone, running, supVars, workerVars, csVars, packVars, restVars, callVars,
                   raccount, rsnap>>

\* lines 269-275: reader->get_outputs(user->id), reader->get_last_block()
ApiGetOutputs ==
    /\ rpc = "outputs"
    /\ rresp' = [rresp EXCEPT !.outputs = get_outputs(rsnap.outputs, raccount),
                              !.last = Len(rsnap.blocks) - 1]
    /\ rpc' = "spends"
    /\ UNCHANGED <<peerVars, dbVars, adminDone, running, supVars, workerVars, csVars, packVars, restVars, callVars,
                   raccount, rsnap>>

\* spend_info::add for the outputs from i on: the spend rows of each output
RECURSIVE SpendsOf(_, _, _)
SpendsOf(spends, outputs, i) ==
    IF i > Len(outputs) THEN <<>>
    ELSE SelectSeq(spends, LAMBDA sp : sp.id = outputs[i].id)
            \o SpendsOf(spends, outputs, i + 1)

\* a handler that reads the spends from the tables as they are by now
ApiGetSpendsLive ==
    /\ rpc = "spends"
    /\ rresp' = [rresp EXCEPT !.spends = SpendsOf(dbSpends[raccount], rresp.outputs, 1)]
    /\ rpc' = "reply"
    /\ UNCHANGED <<peerVars, dbVars, adminDone, running, supVars, workerVars, csVars, packVars, restVars, callVars,
                   raccount, rsnap>>

\* lines 281-292: the loop over the outputs, spends.add(out, *reader, ...)
ApiGetSpends ==
    /\ rpc = "spends"
    /\ rresp' = [rresp EXCEPT !.spends = SpendsOf(rsnap.spends[raccount], rresp.outputs, 1)]
    /\ rpc' = "reply"
    /\ UNCHANGED <<peerVars, dbVars, adminDone, running, supVars, workerVars, csVars, packVars, restVars, callVars,
                   raccount, rsnap>>

\* lines 294-299: reader->finish_read() and the response is sent
ApiReply ==
    /\ rpc = "reply"
    /\ rpc' = "idle"
    /\ raccount' = 0
    /\ rsnap' = NoSnapshot
    /\ rresp' = NoResponse
    /\ UNCHANGED <<peerVars, dbVars, adminDone, running, supVars, workerVars, csVars, packVars, restVars, callVars>>

InitApi ==
    /\ InitScanner({<<2, 2>>}, {<<InitTip - 1, InitTip>>}, {"active"}, Workers)
    /\ ApiIdle
    /\ CsIdle
    /\ PackIdle
    /\ RestIdle
    /\ CallIdle

NextApi ==
    \/ PeerMine
    \/ Stop
    \/ SupRead
    \/ SupPoll
    \/ SupJoin
    \/ SupSyncRound
    \/ SupSyncAbort
    \/ \E w \in Workers : WorkerStep(w)
    \/ \E a \in Accounts : ApiStartRead(a)
    \/ ApiGetAccount
    \/ ApiGetOutputs
    \/ ApiGetSpends
    \/ ApiReply

SpecApi == InitApi /\ [][NextApi]_vars

(***************************************************************************)
(* account::check_spends applied to an account as fetch_loop builds it.   *)
(***************************************************************************)
\* output ids 1..CSMaxId, heights 1..CSMaxHeight, rings of CSMaxRing members
CSMaxId == 4
CSMaxHeight == 2
CSMaxRing == 3
CSMaxOffset == 2

\* the output rows of an account: heights[id] is the height of output id,
\* 0 when the account does not own it
RowsOf(heights) ==
    LET ids == SortedSeq({id \in 1..CSMaxId : heights[id] # 0})
    IN  [j \in 1..Len(ids) |-> [height |-> heights[ids[j]], id |-> ids[j]]]

\* fetch_loop lines 900-909: the ids of get_outputs, handed to the constructor
BuiltAccount(heights) ==
    LET rows == OrderRows(RowsOf(heights))
    IN  account(1, CSMaxHeight, [j \in 1..Len(rows) |-> rows[j].id])

InitCS ==
    /\ InitScanner({<<0, 0>>}, {<<2, 2>>}, {"active"}, {1})
    /\ ApiIdle
    /\ cs_pc = "call"
    /\ \E heights \in [1..CSMaxId -> 0..CSMaxHeight] : cs_user = BuiltAccount(heights)
    /\ cs_image = 1
    /\ cs_offsets \in UNION { [1..n -> 0..CSMaxOffset] : n \in 0..CSMaxRing }
    /\ PackIdle
    /\ RestIdle
    /\ CallIdle

CheckSpendsCall ==
    /\ cs_pc = "call"
    /\ cs_user' = check_spends(cs_user, cs_image, cs_offsets)
    /\ cs_pc' = "done"
    /\ UNCHANGED <<peerVars, dbVars, adminDone, running, supVars, workerVars, apiVars,
                   cs_image, cs_offsets, packVars, restVars, callVars>>

NextCS == CheckSpendsCall

SpecCS == InitCS /\ [][NextCS]_vars

(***************************************************************************)
(* db::pack and db::unpack, applied to the flags and the payment id length *)
(* directly and through the output scan_transaction records.               *)
(***************************************************************************)
\* the longest payment id: pack asserts length <= 32
MaxPaymentIdLen == 32

\* the lengths scan_transaction passes: none, crypto::hash8, crypto::hash
PaymentIdLens == {0, 8, 32}

\* a transaction paying account 1 whose recorded flags are extra: without
\* ring input for the coinbase flag, with a hidden amount for the ringct flag
TxWithExtra(extra, length) ==
    [ version |-> 2, has_pub_key |-> TRUE, derives |-> TRUE, hash |-> 1,
      pid_len |-> length,
      vin |-> IF extra % 2 = 1 THEN <<>>
              ELSE << [k_image |-> 1, key_offsets |-> <<1>>] >>,
      vout |-> << [owner |-> 1, amount |-> IF extra \div 2 = 1 THEN 0 ELSE 5,
                   decodes |-> TRUE] >> ]

\* the extra_and_length byte of the output scan_transaction records for it
RecordedExtra(extra, length) ==
    scan_transaction(<<account(1, 0, <<>>)>>, 1, TxWithExtra(extra, length), <<1>>)
       .users[1].outputs_[1].extra

InitPack ==
    /\ InitScanner({<<2, 2>>}, {<<2, 2>>}, {"active"}, {1})
    /\ ApiIdle
    /\ CsIdle
    /\ RestIdle
    /\ CallIdle
    /\ pk_pc = "call"
    /\ pk_extra \in {kNone, kCoinbase, kRingct, kCoinbaseAndRingct}
    /\ pk_length \in 0..MaxPaymentIdLen
    /\ pk_out = <<kNone, 0>>

\* unpack(pack(extra, length))
PackCall ==
    /\ pk_pc = "call"
    /\ pk_out' = unpack(pack(pk_extra, pk_length))
    /\ pk_pc' = "done"
    /\ UNCHANGED <<peerVars, dbVars, adminDone, running, supVars, workerVars, apiVars,
                   csVars, pk_extra, pk_length, restVars, callVars>>

\* unpack of the byte stored with an output whose transaction has these
\* flags and a payment id of this length
PackRecorded ==
    /\ pk_pc = "call"
    /\ pk_length \in PaymentIdLens
    /\ pk_out' = unpack(RecordedExtra(pk_extra, pk_length))
    /\ pk_pc' = "done"
    /\ UNCHANGED <<peerVars, dbVars, adminDone, running, supVars, workerVars, apiVars,
                   csVars, pk_extra, pk_length, restVars, callVars>>

NextPack == PackCall \/ PackRecorded

SpecPack == InitPack /\ [][NextPack]_vars

(***************************************************************************)
(* rest_server.cpp: the four endpoints for one address.  A handler gives   *)
(* [err, body, pending, logged_in]: its error ("" for none), the body it   *)
(* generates, and the pending flag and context::logged_in it leaves.       *)
(***************************************************************************)
Uris == {"/get_address_info", "/get_address_txs", "/get_unspent_outs", "/login"}

\* the requests of a client: create_account is a field of /login, amount of
\* /get_unspent_outs; key_ok is the outcome of key_check for its view key
Requests ==
    { q \in [uri : Uris, key_ok : BOOLEAN, create : BOOLEAN, amount : {0, 1}] :
         /\ q.create => q.uri = "/login"
         /\ q.amount = 1 => q.uri = "/get_unspent_outs" }

is_hidden(status) == status \notin {"active", "inactive"}

Failed(err, pending, li) ==
    [err |-> err, body |-> "", pending |-> pending, logged_in |-> li]

\* get_account that gives the account of a hidden address as well
get_accountOfHidden(q, acct) ==
    IF ~q.key_ok THEN "kBadViewKey"
    ELSE IF acct = "none" THEN "kNoSuchAccount"
    ELSE ""

\* get_account: the account iff the key matches and it is not hidden
get_account(q, acct) ==
    IF ~q.key_ok THEN "kBadViewKey"
    ELSE IF acct = "none" THEN "kNoSuchAccount"
    ELSE IF is_hidden(acct) THEN "kNoSuchAccount"
    ELSE ""

get_address_info(q, acct, pending, li) ==
    LET user == get_account(q, acct)
    IN  IF user # "" THEN Failed(user, pending, li)
        ELSE [err |-> "", body |-> "address_info", pending |-> pending,
              logged_in |-> TRUE]

get_address_txs(q, acct, pending, li) ==
    LET user == get_account(q, acct)
    IN  IF user # "" THEN Failed(user, pending, li)
        ELSE [err |-> "", body |-> "address_txs", pending |-> pending,
              logged_in |-> TRUE]

\* the account of the address has no outputs here: received stays 0
get_unspent_outs(q, acct, pending, li) ==
    IF ~q.key_ok THEN Failed("kBadViewKey", pending, li)
    ELSE IF acct = "none" THEN Failed("kNoSuchAccount", pending, li)
    ELSE IF is_hidden(acct) THEN Failed("kNoSuchAccount", pending, li)
    ELSE IF 0 < q.amount THEN Failed("kNoSuchAccount", pending, TRUE)
    ELSE [err |-> "", body |-> "unspent_outs", pending |-> pending,
          logged_in |-> TRUE]

\* storage::creation_request: the request is appended unless the account
\* exists or a request is pending
creation_request(acct, pending) ==
    IF acct # "none" THEN [err |-> "AccountExists", pending |-> pending]
    ELSE IF pending THEN [err |-> "DuplicateRequest", pending |-> pending]
    ELSE [err |-> "", pending |-> TRUE]

login(q, acct, pending, li) ==
    IF ~q.key_ok THEN Failed("kBadViewKey", pending, li)
    ELSE IF acct # "none"
    THEN IF is_hidden(acct) THEN Failed("kNoSuchAccount", pending, li)
         ELSE [err |-> "", body |-> "new_address=false", pending |-> pending,
               logged_in |-> TRUE]
    ELSE IF ~q.create THEN Failed("kNoSuchAccount", pending, li)
    ELSE LET r == creation_request(acct, pending)
         IN  IF r.err # "" THEN Failed(r.err, pending, li)
             ELSE [err |-> "", body |-> "new_address=true", pending |-> r.pending,
                   logged_in |-> li]

\* endpoints[]: the handler of the request's URI
RunEndpoint(q, acct, pending, li) ==
    CASE q.uri = "/get_address_info" -> get_address_info(q, acct, pending, li)
      [] q.uri = "/get_address_txs" -> get_address_txs(q, acct, pending, li)
      [] q.uri = "/get_unspent_outs" -> get_unspent_outs(q, acct, pending, li)
      [] q.uri = "/login" -> login(q, acct, pending, li)

\* handle_http_request: the body with 200, or 500 without a body whatever
\* the error
HttpResponse(r) ==
    IF r.err = "" THEN [code |-> 200, body |-> r.body]
    ELSE [code |-> 500, body |-> ""]

InitRest ==
    /\ InitScanner({<<2, 2>>}, {<<2, 2>>}, {"active"}, {1})
    /\ ApiIdle
    /\ CsIdle
    /\ PackIdle
    /\ RestIdle
    /\ CallIdle

\* the server handles request q for the address
RestRequest(q) ==
    /\ \E r \in {RunEndpoint(q, rs_account, rs_pending, logged_in)} :
          /\ rs_pending' = r.pending
          /\ logged_in' = r.logged_in
          /\ rs_response' = HttpResponse(r)
    /\ rs_request' = q
    /\ UNCHANGED <<peerVars, dbVars, adminDone, running, supVars, workerVars, apiVars,
                   csVars, packVars, callVars, rs_account>>

\* the administrator accepts the pending creation request: the account
\* exists and is active
AdminAccept ==
    /\ rs_pending
    /\ rs_pending' = FALSE
    /\ rs_account' = "active"
    /\ UNCHANGED <<peerVars, dbVars, adminDone, running, supVars, workerVars, apiVars,
                   csVars, packVars, callVars, logged_in, rs_request, rs_response>>

\* the administrator sets the status of the account
AdminStatus(status) ==
    /\ rs_account # "none"
    /\ rs_account # status
    /\ rs_account' = status
    /\ UNCHANGED <<peerVars, dbVars, adminDone, running, supVars, workerVars, apiVars,
                   csVars, packVars, callVars, rs_pending, logged_in, rs_request, rs_response>>

NextRest ==
    \/ \E q \in Requests : RestRequest(q)
    \/ AdminAccept
    \/ \E status \in {"active", "inactive", "hidden"} : AdminStatus(status)

SpecRest == InitRest /\ [][NextRest]_vars

(***************************************************************************)
(* scanner.cpp: scan_transaction applied to one transaction of the block   *)
(* at height 1 for the two accounts, both at scan height 0.                *)
(***************************************************************************)
\* most outputs of the transaction
MaxOutputs == 3

\* an output: whose keys it matches, its amount (0: encrypted) and whether
\* decode_amount succeeds for it
TxOutputs == [owner : Accounts, amount : {0, 5}, decodes : BOOLEAN]

\* the outputs of a transaction
Vouts == UNION { [1..n -> TxOutputs] : n \in 1..MaxOutputs }

\* transactions without ring input and with one: with and without a key
\* derivation that succeeds
ScannedTxs ==
    { [ version |-> 2, has_pub_key |-> TRUE, derives |-> d, hash |-> 1,
        pid_len |-> 0,
        vin |-> IF ring THEN << [k_image |-> 1, key_offsets |-> <<1>>] >> ELSE <<>>,
        vout |-> vout ] :
      d \in BOOLEAN, ring \in BOOLEAN, vout \in Vouts }

InitScanTx ==
    /\ InitScanner({<<2, 2>>}, {<<2, 2>>}, {"active"}, {1})
    /\ ApiIdle
    /\ CsIdle
    /\ PackIdle
    /\ RestIdle
    /\ call_pc = "call"
    /\ call_args \in ScannedTxs
    /\ call_result = <<>>

\* scan_transaction(users, height 1, tx, out_ids) with out_ids 1, 2, ...
ScanTxCall ==
    /\ call_pc = "call"
    /\ call_result' = scan_transaction(<<account(1, 0, <<>>), account(2, 0, <<>>)>>, 1,
                                       call_args,
                                       [i \in 1..Len(call_args.vout) |-> i])
    /\ call_pc' = "done"
    /\ UNCHANGED <<peerVars, dbVars, adminDone, running, supVars, workerVars, apiVars,
                   csVars, packVars, restVars, call_args>>

NextScanTx == ScanTxCall

SpecScanTx == InitScanTx /\ [][NextScanTx]_vars

(***************************************************************************)
(* scanner.cpp: sync_chain against peers whose chain is longer than the    *)
(* locator: the local chain ends at any height up to SyncMaxTip, the peer  *)
(* goes on mining and may switch to its other branch between the rounds.   *)
(***************************************************************************)
\* the highest block of the local chain and of the peer's
SyncMaxTip == 14

\* the peer finds a block
PeerMineOn ==
    /\ peerTip < SyncMaxTip
    /\ peerTip' = peerTip + 1
    /\ UNCHANGED <<peerFork, dbVars, adminDone, running, supVars, workerVars>>
    /\ UNCHANGED <<apiVars, csVars, packVars, restVars, callVars>>

\* sync_chain lines 776-788 have run: the locator is the one of the stored
\* chain, no account is active
InitSync ==
    /\ peerTip \in 0..SyncMaxTip
    /\ peerFork = FALSE
    /\ \E t \in 0..SyncMaxTip : dbBlocks = [i \in 1..(t + 1) |-> Hash(i - 1, 0)]
    /\ dbAccounts = [a \in Accounts |->
                        [scan_height |-> 0, start_height |-> 0, status |-> "inactive"]]
    /\ dbOutputs = [a \in Accounts |-> <<>>]
    /\ dbSpends = [a \in Accounts |-> <<>>]
    /\ adminDone = FALSE
    /\ thread_count = 1
    /\ running = TRUE
    /\ spc = "sync"
    /\ active = <<>>
    /\ update = FALSE
    /\ cancel = FALSE
    /\ known = get_chain_sync(dbBlocks)
    /\ wpc = [w \in Workers |-> "none"]
    /\ wusers = [w \in Workers |-> NoUsers]
    /\ wreq = [w \in Workers |-> 0]
    /\ wchain = [w \in Workers |-> <<>>]
    /\ wend = [w \in Workers |-> 0]
    /\ wresult = [w \in Workers |-> ""]
    /\ wretried = [w \in Workers |-> FALSE]
    /\ ApiIdle
    /\ CsIdle
    /\ PackIdle
    /\ RestIdle
    /\ CallIdle

NextSync ==
    \/ PeerMineOn
    \/ PeerReorg
    \/ SupSyncRound

SpecSync == InitSync /\ [][NextSync]_vars

(***************************************************************************)
(* scanner.cpp: mzmq::wait.  Time is counted in milliseconds of the steady  *)
(* clock since the call; a poll takes no longer than the timeout it was     *)
(* given.                                                                   *)
(***************************************************************************)
\* the longest timeout wait is called with
WaitMaxTimeout == 4
\* the time up to which the polls of one call are followed
WaitMaxElapsed == 10

\* how zmq_poll may return: no socket ready in time, a socket ready, the
\* cancel socket ready, interrupted by a signal, another error
PollReturns == {"timeout", "ready", "cancelled", "EINTR", "error"}

\* lines 200-201: the timeout for the next poll after one from start to end
Remaining(timeout, start, end) ==
    LET spent == start - end
    IN  timeout - Min(spent, timeout)

InitWait ==
    /\ InitScanner({<<2, 2>>}, {<<2, 2>>}, {"active"}, {1})
    /\ ApiIdle
    /\ CsIdle
    /\ PackIdle
    /\ RestIdle
    /\ call_pc = "poll"
    /\ \E t \in 0..WaitMaxTimeout :
          call_args = [timeout |-> t, initial |-> t, elapsed |-> 0]
    /\ call_result = ""

\* one pass of the loop of wait (lines 197-209): the poll returns after d
\* milliseconds
WaitPoll(d, ready) ==
    /\ call_pc = "poll"
    /\ d <= call_args.timeout
    /\ ready = "timeout" => d = call_args.timeout
    /\ call_args.elapsed + d <= WaitMaxElapsed
    /\ call_args' = [call_args EXCEPT
                        !.timeout = Remaining(@, call_args.elapsed, call_args.elapsed + d),
                        !.elapsed = @ + d]
    /\ call_pc' = IF ready = "EINTR" THEN "poll" ELSE "done"
    /\ call_result' = CASE ready = "timeout" -> "DaemonConnectionFailure"
                        [] ready = "ready" -> "success"
                        [] ready = "cancelled" -> "AbortScan"
                        [] ready = "EINTR" -> ""
                        [] ready = "error" -> "zmq error"
    /\ UNCHANGED <<peerVars, dbVars, adminDone, running, supVars, workerVars, apiVars,
                   csVars, packVars, restVars>>

NextWait == \E d \in 0..WaitMaxElapsed : \E ready \in PollReturns : WaitPoll(d, ready)

SpecWait == InitWait /\ [][NextWait]_vars

(***************************************************************************)
(* scanner.cpp: check_loop dividing any number of users among any number   *)
(* of threads.                                                             *)
(***************************************************************************)
\* most users and most threads of an epoch
SliceMaxUsers == 5
SliceMaxThreads == 4

\* check_loop is entered with users of ids 1..n at any scan heights
InitSlices ==
    /\ InitScanner({<<2, 2>>}, {<<2, 2>>}, {"active"}, {1})
    /\ ApiIdle
    /\ CsIdle
    /\ PackIdle
    /\ RestIdle
    /\ call_pc = "call"
    /\ \E n \in 1..SliceMaxUsers : \E hs \in [1..n -> 0..2] :
       \E tc \in 1..SliceMaxThreads :
          call_args = [users |-> [i \in 1..n |-> account(i, hs[i], <<>>)],
                       thread_count |-> tc]
    /\ call_result = <<>>

\* check_loop lines 688-710: the users are sorted and sliced
SlicesCall ==
    /\ call_pc = "call"
    /\ call_result' = Slices(SortByHeight(call_args.users), call_args.thread_count,
                             Max(1, Len(call_args.users) \div call_args.thread_count))
    /\ call_pc' = "done"
    /\ UNCHANGED <<peerVars, dbVars, adminDone, running, supVars, workerVars, apiVars,
                   csVars, packVars, restVars, call_args>>

NextSlices == SlicesCall

SpecSlices == InitSlices /\ [][NextSlices]_vars

(***************************************************************************)
(* The scanner left alone: no stop, no change of the accounts, a peer that  *)
(* keeps its branch and answers every request within block_rpc_timeout,     *)
(* under the fair scheduling of the threads.                                *)
(***************************************************************************)
\* mzmq::wait inside receive() when the response arrives in time
WorkerWaitAnswered(w) ==
    /\ wpc[w] = "wait"
    /\ IF cancel THEN Return(w, "AbortScan") ELSE Process(w)
    /\ UNCHANGED <<peerVars, dbVars, adminDone, thread_count, spc, active, cancel, known>>
    /\ UNCHANGED <<apiVars, csVars, packVars, restVars, callVars>>

\* the threads without the timeout of a response.  WorkerStep(w) is enabled
\* where a step of worker w is possible here (a worker that waits always
\* has its response or the cancel message), and every step of worker w here
\* is a step of WorkerStep(w).
NextSteady ==
    \/ PeerMine
    \/ SupRead
    \/ SupPoll
    \/ SupJoin
    \/ SupSyncRound
    \/ \E w \in Workers : WorkerStart(w)
    \/ \E w \in Workers : WorkerLoop(w)
    \/ \E w \in Workers : WorkerWaitAnswered(w)
    \/ \E w \in Workers : WorkerTipSleep(w)
    \/ \E w \in Workers : WorkerCommit(w)

SteadySpec ==
    /\ Init
    /\ [][NextSteady]_vars
    /\ WF_vars(SupStepActive)
    /\ \A w \in Workers : WF_vars(WorkerStep(w))

(***************************************************************************)
(* scanner.cpp: the block loop of scan_loop over a batch in which every    *)
(* block pays its coinbase to the account scanned.  The ids of the         *)
(* outputs are indices per amount: coinbase amounts differ from block to   *)
(* block, so the ids of a batch come in any order.                         *)
(***************************************************************************)
\* the highest output id and the most blocks of a batch
BatchMaxId == 5
BatchMaxBlocks == 3

\* sequences of distinct ids of the lengths in lens
DistinctIds(lens) ==
    UNION { { s \in [1..n -> 1..BatchMaxId] :
                \A i, j \in 1..n : s[i] = s[j] => i = j } : n \in lens }

\* block k of the batch: the coinbase output of account 1 has the id
\* ids[k]; the ring of its other transaction names the coinbase outputs of
\* the batch up to this block
BatchBlocks(ids) ==
    [k \in 1..Len(ids) |->
       [ hash |-> k,
         miner_tx |-> [ version |-> 2, has_pub_key |-> TRUE, derives |-> TRUE,
                        hash |-> 100 + k, pid_len |-> 0, vin |-> <<>>,
                        vout |-> << [owner |-> 1, amount |-> 5, decodes |-> TRUE] >> ],
         tx_hashes |-> << 200 + k >>,
         transactions |->
            << [ version |-> 2, has_pub_key |-> TRUE, derives |-> TRUE,
                 hash |-> 200 + k, pid_len |-> 0,
                 vin |-> << [ k_image |-> 300 + k,
                              key_offsets |->
                                 Offsets(SortedSeq({ids[j] : j \in 1..k})) ] >>,
                 vout |-> <<>> ] >>,
         indices |-> << <<ids[k]>>, <<>> >> ] ]

\* the account was read with the ids of its stored outputs in the order
\* of the storage; the response holds the blocks after its scan height
InitBatch ==
    /\ InitScanner({<<2, 2>>}, {<<2, 2>>}, {"active"}, {1})
    /\ ApiIdle
    /\ CsIdle
    /\ PackIdle
    /\ RestIdle
    /\ call_pc = "call"
    /\ \E received \in DistinctIds(0..2) : \E ids \in DistinctIds(1..BatchMaxBlocks) :
          /\ \A i \in 1..Len(received) : \A k \in 1..Len(ids) : received[i] # ids[k]
          /\ call_args = [received |-> received, ids |-> ids]
    /\ call_result = <<>>

\* scan_loop lines 554-591 for the blocks after the overlap block
BatchCall ==
    /\ call_pc = "call"
    /\ call_result' = ScanBlockData(<<account(1, 1, call_args.received)>>, 1, <<0>>,
                                    BatchBlocks(call_args.ids), 1)
    /\ call_pc' = "done"
    /\ UNCHANGED <<peerVars, dbVars, adminDone, running, supVars, workerVars, apiVars,
                   csVars, packVars, restVars, call_args>>

NextBatch == BatchCall

SpecBatch == InitBatch /\ [][NextBatch]_vars
(***************************************************************************)
(* rest_server.cpp: the loop of get_address_txs over the stored outputs    *)
(* of the account, for accounts with one or several outputs in a           *)
(* transaction and outputs named by no ring, by one or by two.               *)
(***************************************************************************)
\* the most stored outputs of the account and the highest amount
TxsMaxOutputs == 3
TxsMaxAmount == 2

\* Reader::get_spends(output_id): the stored spend rows of the output
get_spends(spends, id) == SelectSeq(spends, LAMBDA sp : sp.id = id)

\* spend_info::add (lines 59-73)
spend_info_add(info, out, spends) ==
    LET rows == get_spends(spends, out.id)
    IN  [ images |-> info.images \o
                     [j \in 1..Len(rows) |->
                        [ amount |-> out.amount, mixin |-> rows[j].mixin_count,
                          index |-> out.index, image |-> rows[j].image ]],
          sent |-> info.sent + Len(rows) * out.amount ]

\* lines 388-401: the loop over outputs[i..], txes being the transactions
\* gathered so far
RECURSIVE AddressTxs(_, _, _, _)
AddressTxs(outputs, spends, i, txes) ==
    IF i > Len(outputs) THEN txes
    ELSE LET out == outputs[i]
             pushed == IF txes = <<>> \/ txes[Len(txes)].out.tx_hash # out.tx_hash
                       THEN Append(txes, [out |-> out,
                                          spends |-> [images |-> <<>>, sent |-> 0]])
                       ELSE [txes EXCEPT ![Len(txes)].out.amount = @ + out.amount]
             back == Len(pushed)
         IN  AddressTxs(outputs, spends, i + 1,
                        [pushed EXCEPT ![back].spends =
                            spend_info_add(@, pushed[back].out, spends)])

\* the account has 1 to TxsMaxOutputs stored outputs with the ids 1, 2, ...
\* in the order of their transactions, the k-th output of a transaction
\* with index k - 1; any ring, of two, may have named any of them
InitTxs ==
    /\ InitScanner({<<2, 2>>}, {<<2, 2>>}, {"active"}, {1})
    /\ ApiIdle
    /\ CsIdle
    /\ PackIdle
    /\ RestIdle
    /\ call_pc = "call"
    /\ \E n \in 1..TxsMaxOutputs :
       \E txs \in [1..n -> 1..2] : \E amounts \in [1..n -> 1..TxsMaxAmount] :
       \E named \in SUBSET ((1..n) \X (1..2)) :
          /\ \A i \in 1..(n - 1) : txs[i] <= txs[i + 1]
          /\ call_args =
                [ outputs |-> [i \in 1..n |->
                     [ id |-> i, tx_hash |-> txs[i], amount |-> amounts[i],
                       index |-> Cardinality({j \in 1..(i - 1) : txs[j] = txs[i]}) ]],
                  spends |-> SelectSeq(
                     [k \in 1..(2 * n) |->
                        [ id |-> (k + 1) \div 2, image |-> 2 - (k % 2),
                          mixin_count |-> 0 ]],
                     LAMBDA sp : <<sp.id, sp.image>> \in named) ]
    /\ call_result = <<>>

\* get_address_txs lines 384-401 for the rows read from the storage
TxsCall ==
    /\ call_pc = "call"
    /\ call_result' = AddressTxs(call_args.outputs, call_args.spends, 1, <<>>)
    /\ call_pc' = "done"
    /\ UNCHANGED <<peerVars, dbVars, adminDone, running, supVars, workerVars, apiVars,
                   csVars, packVars, restVars, call_args>>

NextTxs == TxsCall

SpecTxs == InitTxs /\ [][NextTxs]_vars

(***************************************************************************)
(* Properties of storage::update as scan_loop calls it.                    *)
(***************************************************************************)
\* the step in which worker w calls disk.update(H, blockchain, users)
UpdateBy(w) == wpc[w] = "commit" /\ wpc'[w] # "commit"

\* H, the height passed to update
UpdateHeight(w) == wusers[w][1].height

\* the stored block(H) is absent or differs from the first hash passed
FirstHashMismatch(w) ==
    \/ UpdateHeight(w) + 1 > Len(dbBlocks)
    \/ dbBlocks[UpdateHeight(w) + 1] # wchain[w][1]

\* the users of worker w whose stored scan_height is the one they started from
Matching(w) ==
    { i \in 1..Len(wusers[w]) :
        dbAccounts[wusers[w][i].id].scan_height = wusers[w][i].height }

\* every output row of account a is at or below its scan_height, in tables
\* accounts and outputs
HeightBound(accounts, outputs, a) ==
    \A j \in 1..Len(outputs[a]) : outputs[a][j].height <= accounts[a].scan_height

\* C1: across the update calls of the scan workers the stored scan_height of
\* an account never decreases.
C1_ScanHeightNeverDecreases ==
    [][\A w \in Workers :
          UpdateBy(w) =>
             \A a \in Accounts :
                dbAccounts[a].scan_height <= dbAccounts'[a].scan_height]_vars

\* C2: an update leaves every output row of an account at or below the
\* account's stored scan_height, when that held before the update.
C2_OutputHeightBound ==
    [][\A w \in Workers :
          UpdateBy(w) =>
             \A a \in Accounts :
                HeightBound(dbAccounts, dbOutputs, a)
                   => HeightBound(dbAccounts', dbOutputs', a)]_vars

\* C3: every stored spend row of an account refers to the id of a stored
\* output row of that account, and every spend a worker holds in spends_
\* refers to a stored output of the account or to one of outputs_.
C3_SpendsReferToOutputs ==
    /\ \A a \in Accounts : \A i \in 1..Len(dbSpends[a]) :
          \E j \in 1..Len(dbOutputs[a]) : dbOutputs[a][j].id = dbSpends[a][i].id
    /\ \A w \in Workers : \A u \in 1..Len(wusers[w]) :
          \A i \in 1..Len(wusers[w][u].spends_) :
             \/ \E j \in 1..Len(dbOutputs[wusers[w][u].id]) :
                   dbOutputs[wusers[w][u].id][j].id = wusers[w][u].spends_[i].id
             \/ \E j \in 1..Len(wusers[w][u].outputs_) :
                   wusers[w][u].outputs_[j].id = wusers[w][u].spends_[i].id

\* a spend found in the block at MaxHeight is stored, next to the output it
\* spends
C3_Witness ==
    \E a \in Accounts : \E i \in 1..Len(dbSpends[a]) :
       /\ dbSpends[a][i].image = UserTx(MaxHeight, 0).vin[1].k_image
       /\ dbSpends[a][i].id = MinerOutId(MaxHeight, 0)

\* C4: an update whose first hash does not match the stored block(H) fails
\* with BlockchainReorg, the worker returns, and the Block, Account, Output
\* and Spend tables are as before the call.
C4_ReorgWritesNothing ==
    [][\A w \in Workers :
          (UpdateBy(w) /\ FirstHashMismatch(w)) =>
             /\ wresult'[w] = "BlockchainReorg"
             /\ wpc'[w] = "done"
             /\ dbVars' = dbVars]_vars

\* a worker returned on BlockchainReorg
C4_Witness == \E w \in Workers : wresult[w] = "BlockchainReorg"

\* C5: a successful update appends outputs_ and spends_ and sets scan_height
\* to H + k - 1 for exactly the users whose stored scan_height is the one
\* they started from, changes no row of any other account, and returns the
\* number of users updated: the worker goes on iff that is all of its users.
C5_UpdateFrame ==
    [][\A w \in Workers :
          (UpdateBy(w) /\ ~FirstHashMismatch(w)) =>
             LET users == wusers[w]
                 last == UpdateHeight(w) + Len(wchain[w]) - 1
             IN  /\ \A i \in Matching(w) :
                       /\ dbOutputs'[users[i].id] =
                             dbOutputs[users[i].id] \o users[i].outputs_
                       /\ dbSpends'[users[i].id] =
                             dbSpends[users[i].id] \o users[i].spends_
                       /\ dbAccounts'[users[i].id] =
                             [dbAccounts[users[i].id] EXCEPT !.scan_height = last]
                 /\ \A a \in Accounts :
                       (\A i \in Matching(w) : users[i].id # a) =>
                          /\ dbOutputs'[a] = dbOutputs[a]
                          /\ dbSpends'[a] = dbSpends[a]
                          /\ dbAccounts'[a] = dbAccounts[a]
                 /\ IF Cardinality(Matching(w)) = Len(users)
                    THEN wpc'[w] = "loop" /\ wresult'[w] = ""
                    ELSE wpc'[w] = "done" /\ wresult'[w] = "only updated"]_vars

\* an update skipped a user and the worker returned
C5_Witness == \E w \in Workers : wresult[w] = "only updated"

\* C6: after a successful update(H, [h_H .. h_{H+k-1}], users) the stored
\* block(H + i) is h_{H+i} for 1 <= i < k, block(H) is as before and no
\* block is stored above H + k - 1.
C6_BlockTableAfterUpdate ==
    [][\A w \in Workers :
          (UpdateBy(w) /\ ~FirstHashMismatch(w)) =>
             LET H == UpdateHeight(w)
                 k == Len(wchain[w])
             IN  /\ Len(dbBlocks') = H + k
                 /\ dbBlocks'[H + 1] = dbBlocks[H + 1]
                 /\ \A i \in 1..(k - 1) : dbBlocks'[H + i + 1] = wchain[w][i + 1]]_vars

\* an update pruned the stored tail: the table ends at the height a worker
\* has just scanned to, below the tip synced at the start
C6_Witness ==
    /\ Len(dbBlocks) <= InitTip
    /\ \E w \in Workers :
          /\ wpc[w] = "loop"
          /\ wusers[w] # NoUsers
          /\ wusers[w][1].height + 1 = Len(dbBlocks)

(***************************************************************************)
(* Cancellation.                                                           *)
(***************************************************************************)
\* C8: a worker blocked in the wait for a get_blocks_fast response, with a
\* message published on the cancel channel, stays blocked or returns with
\* AbortScan; the step stores nothing.
C8_CancelWhileBlocked ==
    [][\A w \in Workers :
          (wpc[w] = "wait" /\ cancel /\ wpc'[w] # "wait") =>
             /\ wpc'[w] = "done"
             /\ wresult'[w] = "AbortScan"
             /\ dbVars' = dbVars]_vars

\* a worker left the wait for a response with AbortScan
C8_Witness == \E w \in Workers : wresult[w] = "AbortScan"

(***************************************************************************)
(* Readers.                                                                *)
(***************************************************************************)
\* the response get_address_info gives for account a from the tables snap
ResponseOf(snap, a) ==
    LET outputs == get_outputs(snap.outputs, a)
    IN  [ scan_height |-> snap.accounts[a].scan_height,
          start_height |-> snap.accounts[a].start_height,
          outputs |-> outputs,
          last |-> Len(snap.blocks) - 1,
          spends |-> SpendsOf(snap.spends[a], outputs, 1) ]

\* C7: the response of a reader that runs while scan workers update the
\* storage is the response for one committed state of the tables, the one
\* at its start_read: every update is in it with its block hashes,
\* outputs, spends and scan_height, or with none of them.
C7_ReaderSeesOneState ==
    rpc = "reply" => rresp = ResponseOf(rsnap, raccount)

\* a request is answered after an update stored outputs, spends and a
\* scan_height for its account while the request was being served
C7_Witness ==
    /\ rpc = "reply"
    /\ dbAccounts[raccount].scan_height # rsnap.accounts[raccount].scan_height
    /\ Len(dbOutputs[raccount]) > Len(rsnap.outputs[raccount])
    /\ Len(dbSpends[raccount]) > Len(rsnap.spends[raccount])

(***************************************************************************)
(* Shutdown.                                                               *)
(***************************************************************************)
\* C9: once stop() has set running to false, every worker exits, the
\* workers are joined and fetch_loop returns.
C9_StopTerminates ==
    (~running) ~> (spc = "done" /\ \A w \in Workers : wpc[w] = "none")

(***************************************************************************)
(* Spend detection.                                                        *)
(***************************************************************************)
\* the sum of the first j offsets
RECURSIVE PrefixSum(_, _)
PrefixSum(offsets, j) ==
    IF j = 0 THEN 0 ELSE PrefixSum(offsets, j - 1) + offsets[j]

\* the entries for the ring members j.. that are elements of received
RECURSIVE SpendsOfRing(_, _, _, _)
SpendsOfRing(received, image, offsets, j) ==
    IF j > Len(offsets) THEN <<>>
    ELSE (IF \E i \in 1..Len(received) : received[i] = PrefixSum(offsets, j)
          THEN << [id |-> PrefixSum(offsets, j), image |-> image,
                   mixin_count |-> Max(1, Len(offsets)) - 1] >>
          ELSE <<>>)
         \o SpendsOfRing(received, image, offsets, j + 1)

\* C10: check_spends appends to spends_, in ring order, one entry
\* (id_j, image, max(1, n) - 1) for each prefix sum id_j of the offsets that
\* is an element of received_, and nothing else; received_, outputs_ and the
\* scan height stay as they are.
C10_CheckSpendsExact ==
    [][(cs_pc = "call" /\ cs_pc' = "done") =>
          cs_user' = [cs_user EXCEPT !.spends_ =
                         @ \o SpendsOfRing(cs_user.received_, cs_image, cs_offsets, 1)]]_vars

(***************************************************************************)
(* The in-memory account.                                                  *)
(***************************************************************************)
\* s is in ascending order
Ascending(s) == \A i \in 1..(Len(s) - 1) : s[i] <= s[i + 1]

\* C11: received_ of every account a scan worker holds is sorted ascending,
\* after its construction from the stored output ids and after every
\* add_out, check_spends and updated applied to it.
C11_ReceivedSorted ==
    \A w \in Workers : \A u \in 1..Len(wusers[w]) :
       Ascending(wusers[w][u].received_)

(***************************************************************************)
(* The packed extra_and_length byte.                                       *)
(***************************************************************************)
\* C12: for every extra and every length in 0..32, unpack(pack(extra,
\* length)) is (extra, length), also for the byte of a recorded output.
C12_PackRoundTrip ==
    [][(pk_pc = "call" /\ pk_pc' = "done") => pk_out' = <<pk_extra, pk_length>>]_vars

(***************************************************************************)
(* Chain sync.                                                             *)
(***************************************************************************)
\* the round of sync_chain after which it returns, the scanner running
SyncReturns == spc = "sync" /\ running /\ spc' # "sync"

\* the peer's chain holds a hash of the locator
SharesLocatorHash == FirstKnown(known, 1) # 0

\* the table blocks holds the peer's chain up to the peer's tip
HoldsPeerChain(blocks) ==
    \A h \in 0..peerTip : h + 1 <= Len(blocks) /\ blocks[h + 1] = PeerHash(h)

\* C13: against a peer that shares a hash of the locator, sync_chain returns
\* with success, and the stored block hashes are then the peer's chain up
\* to its tip.
C13_SyncChainSucceeds ==
    [][(SyncReturns /\ SharesLocatorHash) =>
          (spc' = "read" /\ HoldsPeerChain(dbBlocks'))]_vars

(***************************************************************************)
(* Epochs: the supervisor and its workers.                                 *)
(***************************************************************************)
\* the places (worker, index) where the users hold the state of account a
OwnersOf(users, a) ==
    { p \in Workers \X (1..Cardinality(Accounts)) :
        p[2] <= Len(users[p[1]]) /\ users[p[1]][p[2]].id = a }

\* the step that starts an epoch: check_loop creates the scan threads
EpochStarts == spc = "read" /\ spc' = "poll"

\* C14: the in-memory state of an account belongs to at most one live
\* worker; the accounts read at the start of an epoch are each given to
\* exactly one worker, and no worker of an earlier epoch is left unjoined
\* when the workers of an epoch are started.
C14_OneOwner ==
    [][/\ \A a \in Accounts :
             /\ Cardinality(OwnersOf(wusers, a)) <= 1
             /\ Cardinality(OwnersOf(wusers', a)) <= 1
       /\ EpochStarts =>
             /\ \A w \in Workers : wpc[w] = "none"
             /\ \A i \in 1..Len(active') :
                   Cardinality(OwnersOf(wusers', active'[i])) = 1
             /\ \A w \in Workers :
                   (wpc'[w] = "none") = (wusers'[w] = NoUsers)]_vars

\* two workers of a later epoch have been started, each with an account:
\* account 1 was advanced by a commit of an earlier epoch
C14_Witness ==
    /\ \A w \in Workers : wpc[w] = "start" /\ wusers[w] # NoUsers
    /\ \E w \in Workers : \E i \in 1..Len(wusers[w]) :
          /\ wusers[w][i].id = 1
          /\ dbAccounts[1].start_height > 0
          /\ wusers[w][i].height > dbAccounts[1].start_height

\* the ids of the accounts that are active in storage
ActiveIds == { a \in Accounts : dbAccounts[a].status = "active" }

\* the ids the epoch was started with
EpochIds == { active[i] : i \in 1..Len(active) }

\* the supervisor is at its account poll, no worker has left, no stop
AtPoll == spc = "poll" /\ running /\ ~update

\* C15: a set of active ids that differs from the one the epoch was started
\* with is detected at the account poll; the supervisor then publishes the
\* cancel signal, joins all workers, re-runs chain sync, which returns with
\* success, and starts an epoch with the new set; an unchanged set causes
\* no restart.
C15_ActiveSetChange ==
    /\ []((AtPoll /\ ActiveIds # EpochIds) => ENABLED SupPoll)
    /\ [][/\ (AtPoll /\ spc' # "poll") =>
                (ActiveIds # EpochIds /\ spc' = "join" /\ cancel' /\ update')
          /\ (spc = "join" /\ spc' # "join") =>
                /\ \A w \in Workers : wpc[w] \in {"none", "done"}
                /\ running => spc' = "sync"
          /\ (SyncReturns /\ ActiveIds # EpochIds) => spc' = "read"
          /\ EpochStarts =>
                /\ { active'[i] : i \in 1..Len(active') } = ActiveIds
                /\ \A a \in ActiveIds : OwnersOf(wusers', a) # {}]_vars

\* what a worker logs when its update failed or skipped a user
FailedUpdate == {"BlockchainReorg", "only updated"}

\* a worker of the epoch that ended has left on a failed update
UpdateFailed == \E w \in Workers : wresult[w] \in FailedUpdate

\* user u is the state of its account as storage holds it
FreshlyRead(u) ==
    /\ u.height = dbAccounts[u.id].scan_height
    /\ u.outputs_ = <<>>
    /\ u.spends_ = <<>>
    /\ { u.received_[j] : j \in 1..Len(u.received_) }
          = { dbOutputs[u.id][j].id : j \in 1..Len(dbOutputs[u.id]) }

\* C16: a worker whose update fails with BlockchainReorg or updates fewer
\* than all of its users exits; the supervisor then leaves its poll, joins
\* every worker, re-runs chain sync, which returns with success, and starts
\* an epoch with account state freshly read from storage.
C16_RestartAfterFailedUpdate ==
    /\ []((spc = "poll" /\ UpdateFailed) => ENABLED SupPoll)
    /\ [][/\ \A w \in Workers :
                (UpdateBy(w) /\ (FirstHashMismatch(w)
                                    \/ Cardinality(Matching(w)) < Len(wusers[w]))) =>
                   /\ wpc'[w] = "done"
                   /\ wresult'[w] \in FailedUpdate
                   /\ wusers'[w] = NoUsers
                   /\ update'
          /\ (spc = "join" /\ spc' # "join") =>
                /\ \A w \in Workers : wpc[w] \in {"none", "done"}
                /\ running => spc' = "sync"
          /\ (SyncReturns /\ UpdateFailed) => spc' = "read"
          /\ (EpochStarts /\ UpdateFailed) =>
                \A w \in Workers : \A i \in 1..Len(wusers'[w]) :
                   FreshlyRead(wusers'[w][i])]_vars

(***************************************************************************)
(* Reorganization of the peer's chain.                                     *)
(***************************************************************************)
\* sync_chain run to its return against the peer's chain as it is, in at
\* most rounds rounds
RECURSIVE SyncChainRun(_, _, _)
SyncChainRun(locator, blocks, rounds) ==
    LET r == sync_round(locator, blocks)
    IN  IF r.spc # "sync" \/ rounds = 1 THEN r
        ELSE SyncChainRun(r.known, r.blocks, rounds - 1)

\* worker w calls update at a height H where block(H) is stored and is not
\* the peer's block at H, which is the first hash passed
UpdateOnDivergedChain(w) ==
    /\ UpdateBy(w)
    /\ UpdateHeight(w) + 1 <= Len(dbBlocks)
    /\ HeightOf(dbBlocks[UpdateHeight(w) + 1]) = UpdateHeight(w)
    /\ wchain[w][1] = PeerHash(UpdateHeight(w))
    /\ dbBlocks[UpdateHeight(w) + 1] # wchain[w][1]

\* the outcome of the first update of a worker started with slice, against
\* the peer's chain as it is and the block table blocks: "" when it
\* succeeds, "none" when the worker finds itself at the tip, "exception"
\* when scanning throws
FirstUpdate(slice, blocks) ==
    LET resp == GetBlocksFast(Max(1, slice[1].height))
        r == ScanResponse(slice, resp)
        H == slice[1].height
    IN  IF Len(resp.hashes) = 0 THEN "exception"
        ELSE IF Len(resp.hashes) <= 1 THEN "none"
        ELSE IF ~r.ok THEN "exception"
        ELSE IF H + 1 > Len(blocks) \/ blocks[H + 1] # r.blockchain[1]
        THEN "BlockchainReorg"
        ELSE ""

\* the slices check_loop would hand to the workers of an epoch started now
EpochSlices ==
    Slices(SortByHeight(ReadUsers), thread_count,
           Max(1, Len(ReadUsers) \div thread_count))

\* every worker of an epoch started now succeeds with its first update
FirstUpdatesSucceed(blocks) ==
    \A k \in 1..Len(EpochSlices) : FirstUpdate(EpochSlices[k], blocks) \in {"", "none"}

\* C17: an update at a height where the peer's chain has diverged from the
\* stored hashes fails with BlockchainReorg; the chain sync that follows
\* returns with success and leaves the peer's hashes in the block table,
\* and the first update of each worker of the next epoch then succeeds.
C17_ResyncAfterReorg ==
    [][\A w \in Workers :
          UpdateOnDivergedChain(w) =>
             /\ wresult'[w] = "BlockchainReorg"
             /\ \E r \in {SyncChainRun(get_chain_sync(dbBlocks), dbBlocks, MaxHeight + 2)} :
                   /\ r.spc = "read"
                   /\ HoldsPeerChain(r.blocks)
                   /\ FirstUpdatesSucceed(r.blocks)]_vars


\* ---- The block table under interleaved sync_chain and update calls ----

\* C18: after any interleaving of the supervisor's sync_chain calls and the
\* workers' update calls, the block table has no gaps and each stored hash
\* is the hash of a block of the height it is stored at (the peer's hash for
\* that height, on one branch or the other, when it was written).
C18_BlockTableOfPeerHashes ==
    \A i \in 1..Len(dbBlocks) : HeightOf(dbBlocks[i]) = i - 1


\* ---- The order of an account's stored outputs ----

\* the place of a row's transaction in its block: 0 for the miner
\* transaction, 1 for the transaction after it
TxPlace(row) == (row.tx_hash \div 100) - 1

\* row r stands before row q in (block height, transaction, output index)
RowOrder(r, q) ==
    \/ r.height < q.height
    \/ r.height = q.height /\ TxPlace(r) < TxPlace(q)
    \/ r.height = q.height /\ TxPlace(r) = TxPlace(q) /\ r.index < q.index

\* C19: whatever the commits so far, the output rows of each account stand
\* in the table in ascending order of block height, then of transaction
\* within the block, then of output index: every row appended is higher
\* than every row the account had before.
C19_OutputsInOrder ==
    \A a \in Accounts :
        \A i, j \in 1..Len(dbOutputs[a]) :
            i < j => RowOrder(dbOutputs[a][i], dbOutputs[a][j])


\* ---- What a client learns about a hidden account ----

\* the response to request q for an address without account and without
\* pending creation request
ResponseWithoutAccount(q, li) == HttpResponse(RunEndpoint(q, "none", FALSE, li))

C22_UpdateHashList ==
    \A w \in Workers :
        wpc[w] = "commit" =>
            \A i \in 1..Len(wchain[w]) :
                HeightOf(wchain[w][i]) = wusers[w][1].height + i - 1


\* ---- Rows committed twice ----

\* the entries of the sequence s are pairwise different
NoRepeat(s) == \A i, j \in 1..Len(s) : i # j => s[i] # s[j]

\* C23: scan_transaction passes over a user whose scan height is at or above
\* the block, so that, across restarts of the workers and for users that
\* share a slice with users at lower heights, no output id is committed
\* twice for an account and no (output id, key image) either.
C23_NoDoubleCommit ==
    \A a \in Accounts :
        /\ NoRepeat([i \in 1..Len(dbOutputs[a]) |-> dbOutputs[a][i].id])
        /\ NoRepeat([i \in 1..Len(dbSpends[a]) |->
                        <<dbSpends[a][i].id, dbSpends[a][i].image>>])


\* ---- The requests a worker sends ----

\* worker w takes the response to its outstanding request in this step
ResponseTaken(w) ==
    /\ wpc[w] \in {"loop", "wait"}
    /\ wpc'[w] \in {"commit", "tipsleep"}

\* worker w has a request out
RequestOut(w) == wpc[w] \in {"loop", "wait", "tipsleep", "commit"}

\* C24: with a response whose start_height is the request's the worker
\* sends the next request, for the height of the last block received
\* (start_height + number of blocks - 1), before the batch is committed:
\* at the commit that request is out and the commit sends none; every
\* request is for a height of 1 or more.
C24_NextRequest ==
    [][\A w \in Workers :
          /\ ResponseTaken(w) =>
                wreq'[w] = wreq[w] + Len(GetBlocksFast(wreq[w]).hashes) - 1
          /\ wpc[w] = "commit" => wreq[w] = wend[w] /\ wreq'[w] \in {wreq[w], 0}
          /\ RequestOut(w) => wreq[w] >= 1]_vars

\* a batch is scanned for an account at height 0 and the next request is out
C24_Witness ==
    \E w \in Workers :
        /\ wpc[w] = "commit"
        /\ wusers[w][1].height = 0
        /\ wreq[w] = wend[w]
        /\ wreq[w] >= 2


\* ---- Block fetches that time out ----

\* the wait of worker w for the response runs out in this step: the loop is
\* entered again with block_request sent once more
FetchTimeout(w) == wpc[w] = "wait" /\ wpc'[w] = "loop"

\* C25: after a timeout the worker sends the same request again and waits
\* again, and this once only: when the wait for the same request runs out
\* a second time in a row, the request is not sent a third time.
C25_RetryOnce ==
    [][\A w \in Workers :
          FetchTimeout(w) => /\ wreq'[w] = wreq[w]
                             /\ ~wretried[w]]_vars


\* ---- Threads that wait for each other ----

\* worker w has a thread that has not left scan_loop
Alive(w) == wpc[w] \notin {"none", "done"}

\* C21: no state of the supervisor and the workers is a deadlock: a worker
\* that has not left scan_loop can always take a step (its waits end with
\* the response, the cancel message or the timeout, and its one storage
\* write is finished in the step that starts it), the supervisor waits
\* only in its poll and in the join, and whenever it joins the workers
\* every worker has left scan_loop in the end.
C21_NoDeadlock ==
    /\ [](\A w \in Workers : Alive(w) => ENABLED WorkerStep(w))
    /\ [](spc \in {"read", "emptywait", "sync"} => ENABLED SupStep)
    /\ [](spc = "join" /\ (\A w \in Workers : ~Alive(w)) => ENABLED SupJoin)
    /\ [](spc = "join" => <>(\A w \in Workers : ~Alive(w)))

\* the supervisor is in the join while a worker waits for a response
C21_Witness ==
    /\ spc = "join"
    /\ \E w \in Workers : wpc[w] = "wait"


\* ---- Exceptions in a scan worker ----

\* worker w leaves scan_loop through its catch clause in this step
Caught(w) == wresult[w] # "exception" /\ wresult'[w] = "exception"

\* C26: an exception raised in a scan worker (a response without blocks,
\* block and index counts that differ, a transaction version above 2, a
\* failed key derivation, a send that times out, a storage error other
\* than the reorganization) is caught at the top of the worker, which calls
\* stop(): running is false, nothing of the batch is written, and every
\* worker and the supervisor terminate.
C26_ExceptionStopsScanner ==
    /\ [][\A w \in Workers :
             Caught(w) => /\ ~running'
                          /\ wpc'[w] = "done"
                          /\ UNCHANGED dbVars]_vars
    /\ [](\A w \in Workers :
             wresult[w] = "exception" =>
                <>(/\ spc \in {"done", "thrown"}
                   /\ \A v \in Workers : ~Alive(v)))

\* a worker was left by an exception while the other was scanning
C26_Witness ==
    \E w, v \in Workers :
        /\ wresult[w] = "exception"
        /\ wpc[v] \in {"loop", "wait", "commit", "tipsleep"}


\* ---- Malformed responses ----

Scanned1 == call_pc = "done" /\ call_result.ok

\* the rows recorded for the accounts
RecordedRows ==
    UNION { { call_result.users[u].outputs_[j] :
                j \in 1..Len(call_result.users[u].outputs_) } :
            u \in 1..Len(call_result.users) }

\* C28: every output scan_transaction records has the Coinbase flag iff
\* the transaction has no ring input, and the Ringct flag iff the amount of
\* that very output was encrypted, whatever outputs of the transaction
\* were matched before it.
C28_OutputFlags ==
    Scanned1 =>
        \A row \in RecordedRows :
            LET flags == unpack(row.extra)[1]
            IN  /\ (flags % 2 = 1) <=> (Len(call_args.vin) = 0)
                /\ (flags \div 2 = 1) <=> (call_args.vout[row.index + 1].amount = 0)



\* ---- Failures of the cryptographic primitives ----

\* scan_transaction has been called for the transaction looked at
Called1 == call_pc = "done"

\* output i of the transaction is one account u receives: its key matches
\* and its amount is clear or decodes
Receives(u, i) ==
    /\ call_args.vout[i].owner = u
    /\ call_args.vout[i].amount # 0 \/ call_args.vout[i].decodes

\* C29: a primitive that fails (the key derivation of the transaction, the
\* key of an output, the decoding of an amount) only skips the output it
\* fails for: scan_transaction returns without an exception, so that the
\* batch goes on to its commit, and every other output an account receives
\* is recorded for it.
C29_CryptoFailureSkipsOutput ==
    Called1 =>
        /\ call_result.ok
        /\ \A u \in 1..Len(call_result.users) :
              \A i \in 1..Len(call_args.vout) :
                  (Receives(u, i) /\ call_args.derives) =>
                      \E j \in 1..Len(call_result.users[u].outputs_) :
                          call_result.users[u].outputs_[j].index = i - 1



\* ---- The locator between the rounds of sync_chain ----

\* a round of sync_chain stores the hashes of the peer and goes on to
\* another round
RoundStored == SupSyncRound /\ spc' = "sync"

\* the hashes of list are ordered from the newest block to the oldest
NewestFirst(list) ==
    \A i, j \in 1..Len(list) : i < j => HeightOf(list[i]) >= HeightOf(list[j])

\* C30: after a round of sync_chain that stored hashes, the locator of the
\* next round is not empty, has at most 11 entries, starts with the last
\* hash the peer returned, is ordered newest first and ends with the last
\* entry of the locator before.
C30_LocatorRebuilt ==
    [][RoundStored =>
          LET hashes == GetHashesFast(known).hashes
          IN  /\ known' # <<>>
              /\ Len(known') <= 11
              /\ known'[1] = hashes[Len(hashes)]
              /\ NewestFirst(known')
              /\ known'[Len(known')] = known[Len(known)]]_vars

\* a round has stored a response of more than ten hashes
C30_Witness == spc = "sync" /\ Len(known) = 11


\* ---- The timeout of mzmq::wait ----

\* a poll of wait was interrupted and another follows
Interrupted == call_pc = "poll" /\ call_pc' = "poll"

\* C31: the timeout of wait never grows over polls interrupted by EINTR:
\* after every interrupted poll it is the timeout before less the time the
\* poll took, 0 at least, so that a wait that is only interrupted gives up
\* with DaemonConnectionFailure within the timeout it was called with.
C31_WaitTimeoutShrinks ==
    [][Interrupted =>
          LET spent == call_args'.elapsed - call_args.elapsed
          IN  /\ call_args'.timeout = Max(0, call_args.timeout - spent)
              /\ call_args'.timeout <= call_args.timeout
              /\ call_args'.elapsed + call_args'.timeout <= call_args'.initial]_vars


\* ---- stop() during the chain sync ----

\* C32: AbortScan is never an error of the server: when the scanner was
\* stopped while the supervisor is in sync_chain and sync_chain gives up
\* with AbortScan, fetch_loop returns as after any other stop.
C32_AbortScanNotSurfaced == [][SupSyncAbort => spc' = "done"]_vars


\* ---- The slices of the users ----

\* the users are divided
Sliced == call_pc = "done" /\ "thread_count" \in DOMAIN call_args

\* the slices one after the other, the last taken first
RECURSIVE Joined(_, _)
Joined(slices, i) ==
    IF i = 0 THEN <<>> ELSE slices[i] \o Joined(slices, i - 1)

\* C33: the users sorted by scan height are divided into contiguous slices
\* that are not empty, one per worker and thread_count at most, and the
\* sizes of two slices differ by one user at most.
C33_EqualSlices ==
    Sliced =>
        /\ Len(call_result) <= call_args.thread_count
        /\ \A w \in 1..Len(call_result) : call_result[w] # <<>>
        /\ Joined(call_result, Len(call_result)) = SortByHeight(call_args.users)
        /\ \A v, w \in 1..Len(call_result) :
              Len(call_result[v]) - Len(call_result[w]) <= 1


\* ---- The blocks scanned for a commit ----

\* the lowest height of the blocks worker w passed to scan_transaction in
\* the batch it commits: one block per hash pushed after the first
FirstScanned(w) == wend[w] - Len(wchain[w]) + 2

\* the blocks at heights from + 1 .. to were all passed to scan_transaction
\* for user u in the batch worker w commits, none of them skipped for u
ScannedFor(w, u, from, to) ==
    /\ to <= wend[w]
    /\ FirstScanned(w) <= from + 1
    /\ u.height <= from

\* C34: when a commit advances the stored scan_height of an account from a
\* to b, every block at the heights a + 1 .. b was passed to scan_transaction
\* for the account in the batch committed, whatever height the worker
\* started from.
C34_NoBlockSkipped ==
    [][\A w \in Workers :
          UpdateBy(w) =>
             \A i \in 1..Len(wusers[w]) :
                LET a == wusers[w][i].id
                IN  dbAccounts[a].scan_height < dbAccounts'[a].scan_height =>
                       ScannedFor(w, wusers[w][i], dbAccounts[a].scan_height,
                                  dbAccounts'[a].scan_height)]_vars


\* ---- The accounts in memory after a commit ----

\* the update of worker w succeeded for each of its users and updated() was
\* called for them
UpdatedBy(w) == UpdateBy(w) /\ wpc'[w] = "loop"

\* C35: after a successful commit of a worker and its updated() calls, the
\* scan height each of its users has in memory is the stored scan_height of
\* the account and not below the one it had, and the user's outputs_ and
\* spends_ are empty; updated() is not called after an update that failed
\* or left out a user.
C35_MemoryMatchesStorage ==
    [][\A w \in Workers :
          /\ UpdatedBy(w) =>
                /\ ~FirstHashMismatch(w)
                /\ Cardinality(Matching(w)) = Len(wusers[w])
                /\ \A i \in 1..Len(wusers[w]) :
                      LET u == wusers'[w][i]
                      IN  /\ u.id = wusers[w][i].id
                          /\ u.height = dbAccounts'[u.id].scan_height
                          /\ u.height >= wusers[w][i].height
                          /\ u.outputs_ = <<>>
                          /\ u.spends_ = <<>>
          /\ (UpdateBy(w) /\ ~UpdatedBy(w)) => wusers'[w] = NoUsers]_vars


\* ---- Updates of workers at different heights ----

\* worker w is in scan_loop with its users
Scanning(w) == wpc[w] \in {"start", "loop", "wait", "tipsleep", "commit"}

\* the block table blocks has the peer's hash at height h: an update at h
\* finds the hash it passes first
HasPeerBlock(blocks, h) == h + 1 <= Len(blocks) /\ blocks[h + 1] = PeerHash(h)

\* C36: with the peer's chain and the set of active accounts unchanged, a
\* successful update of one worker does not make a later update of another
\* worker, whose slice is at another scan height, fail with BlockchainReorg:
\* the stored block at the height of the other worker, if it was the
\* peer's, is still there after the update.
C36_UpdateKeepsOtherHeights ==
    [][\A v, w \in Workers :
          (/\ v # w
           /\ UpdatedBy(v)
           /\ Scanning(w)
           /\ ~peerFork /\ ~adminDone
           /\ UpdateHeight(w) # UpdateHeight(v)
           /\ HasPeerBlock(dbBlocks, UpdateHeight(w)))
             => HasPeerBlock(dbBlocks', UpdateHeight(w))]_vars


\* ---- Progress of the scan ----

\* every active account is scanned up to the tip of the peer
AllAtTip == \A a \in ActiveIds : dbAccounts[a].scan_height = peerTip

\* C37: with a peer whose chain stops growing, an unchanged set of active
\* accounts and no failure of a send, a receive or the storage, the stored
\* scan_height of every active account reaches the height of the peer's tip
\* and stays there, whatever heights the accounts start from and however
\* they are divided among the workers.
C37_ScanReachesTip == <>[]AllAtTip


\* ---- The outputs after a reorganization ----

\* the peer has switched branch, the block table has the block of the new
\* branch at the fork point and an epoch of scanning is running
Resynced ==
    /\ peerFork
    /\ spc = "poll"
    /\ HasPeerBlock(dbBlocks, ForkPoint)

\* the hash of the block whose transaction tx_hash is in
BlockOfTx(tx_hash) == tx_hash % 100

\* account a has a stored row for output id of transaction tx_hash
HasRow(a, id, tx_hash) ==
    \E j \in 1..Len(dbOutputs[a]) :
        dbOutputs[a][j].id = id /\ dbOutputs[a][j].tx_hash = tx_hash

\* the outputs of the peer's block at height h that are for account a are
\* stored for it
BlockScannedFor(a, h) ==
    LET f == ForkOf(PeerHash(h))
    IN  /\ MinerOwner(h, f) = a => HasRow(a, MinerOutId(h, f), MinerTx(h, f).hash)
        /\ TxOwner(h, f) = a => HasRow(a, TxOutId(h, f), UserTx(h, f).hash)

\* C38: after a reorganization of the peer's chain, the sync and the start
\* of the next epoch, every stored output of every account is in a block of
\* the peer's chain, and the outputs of every block of the peer's chain
\* above the account's start height and up to its scan_height are stored:
\* nothing remains of the blocks that were orphaned and the blocks that took
\* their place are scanned.
C38_OutputsOnCanonicalChain ==
    Resynced =>
        \A a \in ActiveIds :
            /\ \A j \in 1..Len(dbOutputs[a]) :
                  BlockOfTx(dbOutputs[a][j].tx_hash) = PeerHash(dbOutputs[a][j].height)
            /\ \A h \in (dbAccounts[a].start_height + 1)..dbAccounts[a].scan_height :
                  h <= peerTip => BlockScannedFor(a, h)



(***************************************************************************)
(* Spends of outputs found in the same batch.                              *)
(***************************************************************************)
\* the k-th transaction worker w scanned in its batch: the blocks pushed
\* after the first hash, each with its miner transaction first
TxAt(w, k) ==
    LET b == BlockOf(Tail(wchain[w])[(k + 1) \div 2])
    IN  IF k % 2 = 1 THEN b.miner_tx ELSE b.transactions[1]

\* ring input vin of a transaction names the output id
InRing(vin, id) ==
    \E j \in 1..Len(vin.key_offsets) : PrefixSum(vin.key_offsets, j) = id

\* the entries of rows from position n + 1 on hold a row with the id and image
HasSpendAfter(rows, n, id, image) ==
    \E s \in (n + 1)..Len(rows) : rows[s].id = id /\ rows[s].image = image

\* On the peer's chain, where the ids of a batch ascend: when a worker
\* commits a batch with an output of an account and a later transaction
\* whose ring names the output's id, the worker holds the spend in spends_,
\* and an update that stores the output stores the spend as well.
BatchSpendCommitted ==
    [][\A w \in Workers : UpdateBy(w) =>
          \A i \in 1..Len(wusers[w]) :
             LET u == wusers[w][i]
             IN  \A o \in 1..Len(u.outputs_) :
                 \A p, q \in 1..(2 * Len(Tail(wchain[w]))) :
                 \A v \in 1..Len(TxAt(w, q).vin) :
                    (/\ p < q
                     /\ TxAt(w, p).hash = u.outputs_[o].tx_hash
                     /\ InRing(TxAt(w, q).vin[v], u.outputs_[o].id))
                    => /\ HasSpendAfter(u.spends_, 0, u.outputs_[o].id,
                                        TxAt(w, q).vin[v].k_image)
                       /\ Len(dbOutputs'[u.id]) > Len(dbOutputs[u.id])
                          => HasSpendAfter(dbSpends'[u.id], Len(dbSpends[u.id]),
                                           u.outputs_[o].id,
                                           TxAt(w, q).vin[v].k_image)]_vars

\* C39: after the block loop over a batch, the account holds in spends_ a
\* spend for every output it found in block k and every ring of a later
\* transaction of the batch (the other transaction of block k or of a later
\* block) that names the output's id.
C39_SpendOfBatchOutput ==
    call_pc = "done" =>
       LET u == call_result.users[1]
           blocks == BatchBlocks(call_args.ids)
       IN  \A o \in 1..Len(u.outputs_) : \A k, q \in 1..Len(blocks) :
              (/\ blocks[k].miner_tx.hash = u.outputs_[o].tx_hash
               /\ k <= q
               /\ InRing(blocks[q].transactions[1].vin[1], u.outputs_[o].id))
              => HasSpendAfter(u.spends_, 0, u.outputs_[o].id,
                               blocks[q].transactions[1].vin[1].k_image)



(***************************************************************************)
(* The transactions of get_address_txs.                                    *)
(***************************************************************************)
\* the sum of amount over the entries of rows
RECURSIVE SumAmount(_)
SumAmount(rows) ==
    IF rows = <<>> THEN 0 ELSE Head(rows).amount + SumAmount(Tail(rows))

\* the number of entries of images for output index with the image
Listed(images, index, image) ==
    Cardinality({j \in 1..Len(images) :
                    images[j].index = index /\ images[j].image = image})

\* C40: in the transactions get_address_txs returns, every stored spend
\* row of every output of the account is listed exactly once in the
\* spent_outputs of the transaction of that output, no other entry is
\* listed, and total_sent of the transaction is the sum of the amounts of
\* the outputs its spend rows name.
C40_SpendsListedOnce ==
    call_pc = "done" =>
       \A t \in 1..Len(call_result) :
          LET tx == call_result[t]
              outs == SelectSeq(call_args.outputs,
                                LAMBDA o : o.tx_hash = tx.out.tx_hash)
              spent == [o \in 1..Len(outs) |->
                          [amount |-> outs[o].amount
                                      * Len(get_spends(call_args.spends, outs[o].id))]]
          IN  /\ \A o \in 1..Len(outs) : \A s \in 1..Len(call_args.spends) :
                    call_args.spends[s].id = outs[o].id
                    => Listed(tx.spends.images, outs[o].index,
                              call_args.spends[s].image) = 1
              /\ Len(tx.spends.images) = SumAmount([o \in 1..Len(outs) |->
                    [amount |-> Len(get_spends(call_args.spends, outs[o].id))]])
              /\ tx.spends.sent = SumAmount(spent)

====
